---- MODULE Spec2Model ----
(***************************************************************************)
(* Model of the AgentCore gateway REST facade (ts-version).                *)
(*                                                                         *)
(* The state is the target record held by the gateway control service and  *)
(* the local variables of each in-flight ToolsService.updateGatewayTarget  *)
(* execution.  Optional JavaScript values (undefined / missing key) are    *)
(* modelled as sequences of length 0 (None) or 1 (Some(v)).                *)
(***************************************************************************)
EXTENDS Integers, Sequences, FiniteSets, TLC

\* ---------------------------------------------------------------- bounds
\* Total number of updateGatewayTarget invocations in one behaviour.
MaxCalls == 2

\* Total number of HTTP requests handled in one behaviour of the API.
MaxRequests == 2

\* The updaters that may run concurrently (independent HTTP requests).
Procs == {1, 2}

\* ------------------------------------------------------- optional values
None == <<>>
Some(v) == <<v>>
Get(o) == o[1]

\* JavaScript truthiness of an optional string: undefined and "" are falsy.
Truthy(o) == o # None /\ Get(o) # ""

\* ----------------------------------------------------------- value sets
OldUri == "s3://b/old.json"
NewUri == "s3://b/new.json"

\* A targetConfiguration object.  depth says how much of the path
\* mcp.openApiSchema.s3.uri exists: 0 = {}, 1 = {mcp:{}},
\* 2 = {mcp:{openApiSchema:{}}}, 3 = {mcp:{openApiSchema:{s3:{}}}},
\* 4 = the uri key is present (its value may be "").  extra stands for the
\* rest of the configuration, which the update logic never inspects.
Cfg(d, u, e) == [depth |-> d, uri |-> u, extra |-> e]

RequestConfigs ==
    {Cfg(d, "", "e1") : d \in 0..3} \cup {Cfg(4, u, "e1") : u \in {"", NewUri}}

RequestCreds == {<<>>, <<"cB">>}

\* The arguments of one updateGatewayTarget call.
Requests ==
    [targetName : {"n1"},
     targetConfiguration : {None} \cup {Some(c) : c \in RequestConfigs},
     description : {None, Some("d1")},
     credentialProviderConfigurations : {None} \cup {Some(c) : c \in RequestCreds}]

\* The requests used when two updaters run concurrently: each field either
\* omitted or supplied, with and without a usable spec URI.
RaceRequests ==
    [targetName : {"n1"},
     targetConfiguration : {None, Some(Cfg(4, NewUri, "e1"))},
     description : {None, Some("d1")},
     credentialProviderConfigurations : {None, Some(<<"cB">>)}]

NoRequest ==
    [targetName |-> "", targetConfiguration |-> None, description |-> None,
     credentialProviderConfigurations |-> None]

\* A target record as the service stores and returns it.
Target(n, tc, cr, d) ==
    [name |-> n, targetConfiguration |-> tc,
     credentialProviderConfigurations |-> cr, description |-> d]

InitialTargets ==
    {None,
     Some(Target("n0", Some(Cfg(4, OldUri, "e0")), Some(<<"c0">>), Some("d0"))),
     Some(Target("n0", Some(Cfg(4, OldUri, "e0")), None, None))}

\* ---------------------------------------------------------------- errors
Err(n, m) == [kind |-> "error", name |-> n, message |-> m]
Ok == [kind |-> "ok", name |-> "", message |-> ""]
Pending == [kind |-> "pending", name |-> "", message |-> ""]

NotFoundMessage == "Target '<id>' not found on gateway '<id>'"
ConfigRequiredMessage ==
    "target_configuration is required when updating tool if existing target cannot be retrieved"

\* Failures the service can answer any call with, whatever the stored state.
TransientErrors ==
    {Err("ThrottlingException", "Rate exceeded"),
     Err("AccessDeniedException", "Access denied")}

ResourceNotFound == Err("ResourceNotFoundException", "Resource not found")

ConflictError == Err("ConflictException", "Target name already exists")

\* ------------------------------------------------ ToolsService, pure parts
\* x?.mcp?.openApiSchema?.s3?.uri of an optional targetConfiguration:
\* undefined (None) unless every object on the path and the uri key exist.
GetS3Uri(tc) ==
    IF tc = None THEN None
    ELSE IF Get(tc).depth < 4 THEN None
    ELSE Some(Get(tc).uri)

\* getGatewayTarget's catch block: a ResourceNotFoundException becomes a
\* plain Error with the not-found message, anything else is re-thrown.
GetGatewayTargetError(e) ==
    IF e.name = "ResourceNotFoundException"
    THEN Err("Error", NotFoundMessage)
    ELSE e

\* Variant: the write's error is passed on as the service raised it.
UpdateGatewayTargetError_Rethrows(e) == e

\* updateGatewayTarget's final catch block, same mapping for the write.
UpdateGatewayTargetError(e) ==
    IF e.name = "ResourceNotFoundException"
    THEN Err("Error", NotFoundMessage)
    ELSE e

\* Variant: the update goes on without any configuration.
ConfigurationRequired_Skipped(targetConfiguration, existingTarget) == FALSE

\* The throw of "target_configuration is required ...": no configuration
\* from the caller and no existing target to take one from.
ConfigurationRequired(targetConfiguration, existingTarget) ==
    targetConfiguration = None /\ existingTarget = None

\* Variant: the fallback rebuilds a configuration around the existing URI
\* instead of reusing the existing targetConfiguration object.
FinalTargetConfiguration_UriOnly(targetConfiguration, existingTarget) ==
    IF targetConfiguration # None THEN targetConfiguration
    ELSE IF existingTarget # None
         THEN IF Get(existingTarget).targetConfiguration = None THEN None
              ELSE Some(Cfg(4,
                    IF Truthy(GetS3Uri(Get(existingTarget).targetConfiguration))
                    THEN Get(GetS3Uri(Get(existingTarget).targetConfiguration))
                    ELSE "",
                    ""))
    ELSE None

\* finalTargetConfiguration before the S3 URI step.
FinalTargetConfiguration(targetConfiguration, existingTarget) ==
    IF targetConfiguration # None THEN targetConfiguration
    ELSE IF existingTarget # None THEN Get(existingTarget).targetConfiguration
    ELSE None

\* Variant: the existing URI is put into every configuration that can hold
\* one, also over a URI the caller supplied.
PreserveS3Uri_ExistingWins(finalTargetConfiguration, existingTarget) ==
    IF existingTarget # None /\ finalTargetConfiguration # None
    THEN LET existingS3Uri == GetS3Uri(Get(existingTarget).targetConfiguration)
         IN  IF Truthy(existingS3Uri)
                /\ Get(finalTargetConfiguration).depth >= 3
             THEN Some([Get(finalTargetConfiguration) EXCEPT
                           !.depth = 4, !.uri = Get(existingS3Uri)])
             ELSE finalTargetConfiguration
    ELSE finalTargetConfiguration

\* "If target_configuration has an empty S3 URI, preserve existing one":
\* the assignment is made only when the s3 object exists in the new
\* configuration.
PreserveS3Uri(finalTargetConfiguration, existingTarget) ==
    IF existingTarget # None /\ finalTargetConfiguration # None
    THEN LET existingS3Uri == GetS3Uri(Get(existingTarget).targetConfiguration)
             newS3Uri == GetS3Uri(finalTargetConfiguration)
         IN  IF ~Truthy(newS3Uri) /\ Truthy(existingS3Uri)
             THEN IF Get(finalTargetConfiguration).depth >= 3
                  THEN Some([Get(finalTargetConfiguration) EXCEPT
                                !.depth = 4, !.uri = Get(existingS3Uri)])
                  ELSE finalTargetConfiguration
             ELSE finalTargetConfiguration
    ELSE finalTargetConfiguration

\* Variant: the caller's list is added to the existing one instead of
\* replacing it.
MergedCredentials_Appends(credentialProviderConfigurations, existingTarget) ==
    IF credentialProviderConfigurations # None
    THEN IF existingTarget # None
            /\ Get(existingTarget).credentialProviderConfigurations # None
         THEN Some(Get(Get(existingTarget).credentialProviderConfigurations)
                      \o Get(credentialProviderConfigurations))
         ELSE credentialProviderConfigurations
    ELSE IF existingTarget # None
         THEN Get(existingTarget).credentialProviderConfigurations
         ELSE None

\* Variant: a truthiness test that also treats an empty list as "not
\* provided" (the test `if (credentialProviderConfigurations?.length)`).
MergedCredentials_EmptyIsAbsent(credentialProviderConfigurations, existingTarget) ==
    IF credentialProviderConfigurations # None
       /\ Get(credentialProviderConfigurations) # <<>>
    THEN credentialProviderConfigurations
    ELSE IF existingTarget # None
         THEN Get(existingTarget).credentialProviderConfigurations
         ELSE None

\* Variant: no fallback to the existing credentials.
MergedCredentials_NoFallback(credentialProviderConfigurations, existingTarget) ==
    credentialProviderConfigurations

\* credentialProviderConfigurations of the update parameters: the caller's
\* list when it is not undefined, else the existing list when the target was
\* read and has one (an empty array is truthy), else the key is left out.
MergedCredentials(credentialProviderConfigurations, existingTarget) ==
    IF credentialProviderConfigurations # None
    THEN credentialProviderConfigurations
    ELSE IF existingTarget # None
         THEN Get(existingTarget).credentialProviderConfigurations
         ELSE None

\* description of the update parameters: set only when the caller gave one.
MergedDescription(description, existingTarget) == description

\* updateParams as handed to UpdateGatewayTargetCommand.
UpdateParams(r, existingTarget) ==
    [sent |-> TRUE,
     name |-> r.targetName,
     targetConfiguration |->
        PreserveS3Uri(
            FinalTargetConfiguration(r.targetConfiguration, existingTarget),
            existingTarget),
     credentialProviderConfigurations |->
        MergedCredentials(r.credentialProviderConfigurations, existingTarget),
     description |-> MergedDescription(r.description, existingTarget)]

\* ------------------------------------------------ gateway control service
\* UpdateGatewayTarget is a full replace: every mutable field of the stored
\* record takes the value in the request, a missing key clears the field.
ReplaceTarget(params) ==
    Target(params.name, params.targetConfiguration,
           params.credentialProviderConfigurations, params.description)

VARIABLES
    store,      \* the target record in the service, None when it does not exist
    pc,         \* per updater: "idle", "reading", "writing" or "done"
    req,        \* per updater: the arguments of its current call, the
                \* targetConfiguration object being the caller's own
    given,      \* per updater: the arguments as they were passed in
    shared,     \* the two updaters hold one and the same configuration object
    existing,   \* per updater: existingTarget, None when the read failed
    readError,  \* per updater: the error getGatewayTarget threw, if any
    payload,    \* per updater: updateParams, sent = TRUE once the write is sent
    result,     \* per updater: outcome of the call (resolved value or thrown error)
    reads,      \* per updater: GetGatewayTarget calls sent by the current call
    writes,     \* per updater: UpdateGatewayTarget calls sent by the current call
    stale,      \* per updater: another write was applied after its read
    calls,      \* number of updateGatewayTarget invocations so far
    env,        \* process.env.GATEWAY_ROLE_ARN, None when not set
    gateways,   \* the gateways in the service, in creation order
    bucketExists, \* whether the OpenAPI specs bucket exists in S3
    objects,    \* the objects written to the bucket
    providers,  \* the API key credential providers in the service
    targets,    \* the targets created through the tool-creation endpoints
    hreq,       \* the HTTP request being handled (or handled last)
    hpc,        \* where its handler is: "idle", an awaited call, or "done"
    hloc,       \* local variables of the tool-creation helpers
    hlog,       \* the service calls sent while handling hreq, in order
    hres,       \* the HTTP response to hreq
    requests,   \* number of HTTP requests so far
    fin,        \* the arguments of a service method called on its own
    fout,       \* what that call returned or threw, None before it ran
    up          \* per caller of uploadOpenApiSpec: where its upload is

\* The state of the HTTP layer and of the services behind it other than the
\* updated target.
apiVars == <<env, gateways, bucketExists, objects, providers, targets,
             hreq, hpc, hloc, hlog, hres, requests>>

\* Service methods called on their own, outside an HTTP request.
directVars == <<fin, fout, up>>

vars == <<store, pc, req, given, shared, existing, readError, payload, result, reads, writes,
          stale, calls, apiVars, directVars>>

NoPayload == [sent |-> FALSE, name |-> "", targetConfiguration |-> None,
              credentialProviderConfigurations |-> None, description |-> None]

\* What GetGatewayTarget can fail with in the current service state.
GetFailures ==
    (IF store = None THEN {ResourceNotFound} ELSE {}) \cup TransientErrors

\* What UpdateGatewayTarget can fail with in the current service state.
UpdateFailures ==
    (IF store = None THEN {ResourceNotFound} ELSE {ConflictError})
        \cup TransientErrors

\* The gateway role the server is configured with.
GatewayRoleArn == "arn:aws:iam::123456789012:role/agentcore-gateway-role"

NoHttpRequest == [endpoint |-> "none"]
NoHttpResponse == [status |-> 0, keys |-> {}, error |-> ""]
NoLocals == [spec |-> None, bucket |-> "", key |-> "", s3Uri |-> "",
             response |-> None, credentialProviderArn |-> ""]

\* No HTTP request has been made: the services hold nothing but the target.
NoArguments == [method |-> "none"]

NoUpload == [pc |-> "idle", gatewayId |-> "", toolName |-> "", key |-> "",
             result |-> Pending, log |-> <<>>]

\* No service method has been called on its own.
DirectQuiet ==
    /\ fin = NoArguments
    /\ fout = None
    /\ up = [p \in Procs |-> NoUpload]

ApiQuiet ==
    /\ DirectQuiet
    /\ env = Some(GatewayRoleArn)
    /\ gateways = <<>>
    /\ bucketExists = FALSE
    /\ objects = {}
    /\ providers = {}
    /\ targets = {}
    /\ hreq = NoHttpRequest
    /\ hpc = "idle"
    /\ hloc = NoLocals
    /\ hlog = <<>>
    /\ hres = NoHttpResponse
    /\ requests = 0

Init ==
    /\ ApiQuiet
    /\ store \in InitialTargets
    /\ pc = [p \in Procs |-> "idle"]
    /\ req = [p \in Procs |-> NoRequest]
    /\ given = [p \in Procs |-> NoRequest]
    /\ shared = FALSE
    /\ existing = [p \in Procs |-> None]
    /\ readError = [p \in Procs |-> None]
    /\ payload = [p \in Procs |-> NoPayload]
    /\ result = [p \in Procs |-> Pending]
    /\ reads = [p \in Procs |-> 0]
    /\ writes = [p \in Procs |-> 0]
    /\ stale = [p \in Procs |-> FALSE]
    /\ calls = 0

\* updateGatewayTarget is invoked: the local variables are fresh and the
\* GetGatewayTarget request is sent.  sameObject says that the
\* targetConfiguration passed is the object the other updater holds.
Invoke(p, r, sameObject) ==
    /\ pc[p] \in {"idle", "done"}
    /\ calls < MaxCalls
    /\ calls' = calls + 1
    /\ pc' = [pc EXCEPT ![p] = "reading"]
    /\ req' = [req EXCEPT ![p] = r]
    /\ given' = [given EXCEPT ![p] = r]
    /\ shared' = sameObject
    /\ existing' = [existing EXCEPT ![p] = None]
    /\ readError' = [readError EXCEPT ![p] = None]
    /\ payload' = [payload EXCEPT ![p] = NoPayload]
    /\ result' = [result EXCEPT ![p] = Pending]
    /\ reads' = [reads EXCEPT ![p] = 1]
    /\ writes' = [writes EXCEPT ![p] = 0]
    /\ stale' = [stale EXCEPT ![p] = FALSE]
    /\ UNCHANGED <<store, apiVars, directVars>>

\* updateGatewayTarget is invoked with arguments of its own.
Call(p, r) == Invoke(p, r, FALSE)

\* The assignment of line 234 as every holder of the object sees it: the
\* caller of updater p, and the other updater when it holds the same object.
AssignS3Uri(p, existingTarget) ==
    [q \in Procs |->
        IF q = p \/ shared
        THEN [req[q] EXCEPT !.targetConfiguration =
                  PreserveS3Uri(req[p].targetConfiguration, existingTarget)]
        ELSE req[q]]

\* Variant: a failed read is retried once before the update goes on.
AfterRead_RetryRead(p, existingTarget, caught) ==
    IF caught # None /\ reads[p] = 1
    THEN /\ reads' = [reads EXCEPT ![p] = 2]
         /\ UNCHANGED <<store, pc, req, given, shared, existing, readError, payload, result,
                        writes, stale, calls, apiVars, directVars>>
    ELSE /\ existing' = [existing EXCEPT ![p] = existingTarget]
         /\ readError' = [readError EXCEPT ![p] = caught]
         /\ IF ConfigurationRequired(req[p].targetConfiguration, existingTarget)
            THEN /\ pc' = [pc EXCEPT ![p] = "done"]
                 /\ result' = [result EXCEPT ![p] =
                                    Err("Error", ConfigRequiredMessage)]
                 /\ UNCHANGED <<payload, writes>>
            ELSE /\ pc' = [pc EXCEPT ![p] = "writing"]
                 /\ payload' = [payload EXCEPT ![p] =
                                    UpdateParams(req[p], existingTarget)]
                 /\ writes' = [writes EXCEPT ![p] = writes[p] + 1]
                 /\ UNCHANGED result
         /\ req' = AssignS3Uri(p, existingTarget)
         /\ UNCHANGED <<store, given, shared, reads, stale, calls, apiVars, directVars>>

\* The code between the end of the read and the next await: either the
\* "target_configuration is required" throw, or the update parameters are
\* built and the UpdateGatewayTarget request is sent.  finalTargetConfiguration
\* is the caller's object when one was passed, so the URI assignment shows in
\* the caller's targetConfiguration as well.
AfterRead(p, existingTarget, caught) ==
    /\ existing' = [existing EXCEPT ![p] = existingTarget]
    /\ readError' = [readError EXCEPT ![p] = caught]
    /\ IF ConfigurationRequired(req[p].targetConfiguration, existingTarget)
       THEN /\ pc' = [pc EXCEPT ![p] = "done"]
            /\ result' = [result EXCEPT ![p] = Err("Error", ConfigRequiredMessage)]
            /\ UNCHANGED <<payload, writes>>
       ELSE /\ pc' = [pc EXCEPT ![p] = "writing"]
            /\ payload' = [payload EXCEPT ![p] = UpdateParams(req[p], existingTarget)]
            /\ writes' = [writes EXCEPT ![p] = writes[p] + 1]
            /\ UNCHANGED result
    /\ req' = AssignS3Uri(p, existingTarget)
    /\ UNCHANGED <<store, given, shared, reads, stale, calls, apiVars, directVars>>

\* GetGatewayTarget answers with the stored record.
GetSucceeds(p) ==
    /\ pc[p] = "reading"
    /\ store # None
    /\ AfterRead(p, store, None)

\* GetGatewayTarget fails; updateGatewayTarget catches and only logs it.
GetFails(p, e) ==
    /\ pc[p] = "reading"
    /\ e \in GetFailures
    /\ AfterRead(p, None, Some(GetGatewayTargetError(e)))

\* UpdateGatewayTarget is applied by the service and answers.
UpdateSucceeds(p) ==
    /\ pc[p] = "writing"
    /\ store # None
    /\ store' = Some(ReplaceTarget(payload[p]))
    /\ pc' = [pc EXCEPT ![p] = "done"]
    /\ result' = [result EXCEPT ![p] = Ok]
    /\ stale' = [q \in Procs |->
                    IF q # p /\ pc[q] = "writing" THEN TRUE ELSE stale[q]]
    /\ UNCHANGED <<req, given, shared, existing, readError, payload, reads, writes, calls,
                   apiVars, directVars>>

\* UpdateGatewayTarget is rejected; the error goes through the catch block.
UpdateFails(p, e) ==
    /\ pc[p] = "writing"
    /\ e \in UpdateFailures
    /\ pc' = [pc EXCEPT ![p] = "done"]
    /\ result' = [result EXCEPT ![p] = UpdateGatewayTargetError(e)]
    /\ UNCHANGED <<store, req, given, shared, existing, readError, payload, reads, writes,
                   stale, calls, apiVars, directVars>>

\* Another actor deletes the target (deleteGatewayTarget, one service call).
DeleteGatewayTarget ==
    /\ store # None
    /\ store' = None
    /\ UNCHANGED <<pc, req, given, shared, existing, readError, payload, result, reads,
                   writes, stale, calls, apiVars, directVars>>

\* One client issuing its updates one after the other, no other actor.
Next ==
    \/ \E r \in Requests : Call(1, r)
    \/ GetSucceeds(1)
    \/ \E e \in GetFailures : GetFails(1, e)
    \/ UpdateSucceeds(1)
    \/ \E e \in UpdateFailures : UpdateFails(1, e)

Spec == Init /\ [][Next]_vars

\* A client sends an update and, once it has returned, the same update again.
FirstCall(r) ==
    /\ pc[1] = "idle"
    /\ pc[2] = "idle"
    /\ Call(1, r)

\* The repetition comes with a new object of the same content (a second
\* HTTP request)
RepeatCall ==
    /\ pc[1] = "done"
    /\ pc[2] = "idle"
    /\ Call(2, given[1])

\* or passes the object of the first call again.
RepeatCallSameObject ==
    /\ pc[1] = "done"
    /\ pc[2] = "idle"
    /\ Invoke(2, req[1], TRUE)

\* The same update request sent twice, the second after the first returned,
\* no other actor.
NextRepeat ==
    \/ \E r \in Requests : FirstCall(r)
    \/ RepeatCall
    \/ RepeatCallSameObject
    \/ \E p \in Procs : GetSucceeds(p)
    \/ \E p \in Procs, e \in GetFailures : GetFails(p, e)
    \/ \E p \in Procs : UpdateSucceeds(p)
    \/ \E p \in Procs, e \in UpdateFailures : UpdateFails(p, e)

SpecRepeat == Init /\ [][NextRepeat]_vars

\* Independent HTTP requests: the updaters interleave at every await, and
\* another actor may delete the target at any time.
NextRace ==
    \/ \E p \in Procs, r \in RaceRequests : Call(p, r)
    \/ \E p \in Procs : GetSucceeds(p)
    \/ \E p \in Procs, e \in GetFailures : GetFails(p, e)
    \/ \E p \in Procs : UpdateSucceeds(p)
    \/ \E p \in Procs, e \in UpdateFailures : UpdateFails(p, e)
    \/ DeleteGatewayTarget

SpecRace == Init /\ [][NextRace]_vars

\* ------------------------------------------------------------ HTTP layer
\* Only requests that pass the global ValidationPipe reach a handler: string
\* fields are strings (possibly empty), optional fields may be missing.

BadRequest(m) == Err("BadRequestException", m)

GatewayNotFoundMessage == "Gateway '<id>' not found"
MaxResultsMessage == "maxResults must be between 1 and 1000"
RoleNotConfiguredMessage ==
    "GATEWAY_ROLE_ARN environment variable is not configured"
AuthConfigMessage ==
    "Missing required auth_config fields: user_pool_id, client_id, discovery_url"
AuthorizerTypeMessage ==
    "authorizer_type must be one of: CUSTOM_JWT, AWS_IAM, NONE"
ProtocolTypeMessage == "protocol_type must be MCP"

\* error.message?.includes('not found'), over the messages that occur.
IncludesNotFound(m) ==
    m \in {NotFoundMessage, GatewayNotFoundMessage, ResourceNotFound.message}

\* new HttpException({status: 500, error: error.message}, 500)
InternalServerError(e) ==
    [status |-> 500, keys |-> {"status", "error"}, error |-> e.message]

\* new HttpException(error.message, HttpStatus.NOT_FOUND): a string response
\* is rendered by the framework as {statusCode, message}.
NotFoundResponse(e) ==
    [status |-> 404, keys |-> {"statusCode", "message"}, error |-> e.message]

\* a BadRequestException re-thrown as it is: {statusCode, message, error}.
BadRequestResponse(e) ==
    [status |-> 400, keys |-> {"statusCode", "message", "error"},
     error |-> e.message]

Success(code, keys) == [status |-> code, keys |-> keys, error |-> ""]

GatewayKeys ==
    {"status", "message", "gateway_id", "gateway_url", "gateway_arn", "name",
     "description", "created_at", "updated_at", "gateway_status",
     "status_reasons", "authorizer_type", "protocol_type", "role_arn",
     "authorizer_configuration", "protocol_configuration", "exception_level",
     "interceptor_configurations", "policy_engine_configuration",
     "kms_key_arn", "workload_identity_details"}

ListKeys == {"status", "message", "items", "next_token"}

ToolKeys ==
    {"status", "message", "target_id", "name", "description", "gateway_arn",
     "created_at", "updated_at", "last_synchronized_at", "target_status",
     "status_reasons", "target_configuration",
     "credential_provider_configurations"}

UpdateToolKeys ==
    {"status", "tool_name", "target_id", "gateway_id", "message",
     "gateway_arn", "description", "created_at", "updated_at",
     "last_synchronized_at", "target_status", "status_reasons",
     "target_configuration", "credential_provider_configurations"}

DeleteToolKeys ==
    {"status", "target_id", "gateway_id", "gateway_arn", "status_reasons",
     "message"}

\* The catch block of each handler.
ListGatewaysCatch(e) == InternalServerError(e)

GetGatewayCatch(e) ==
    IF IncludesNotFound(e.message) THEN NotFoundResponse(e)
    ELSE InternalServerError(e)

CreateGatewayCatch(e) == InternalServerError(e)

CreateGatewayNoAuthCatch(e) == InternalServerError(e)

UpdateGatewayCatch(e) ==
    IF e.name = "BadRequestException" THEN BadRequestResponse(e)
    ELSE IF IncludesNotFound(e.message) THEN NotFoundResponse(e)
    ELSE InternalServerError(e)

DeleteGatewayCatch(e) == InternalServerError(e)

ListToolsCatch(e) == InternalServerError(e)

GetToolCatch(e) ==
    IF IncludesNotFound(e.message) THEN NotFoundResponse(e)
    ELSE InternalServerError(e)

UpdateToolCatch(e) ==
    IF IncludesNotFound(e.message) THEN NotFoundResponse(e)
    ELSE InternalServerError(e)

DeleteToolCatch(e) ==
    IF IncludesNotFound(e.message) THEN NotFoundResponse(e)
    ELSE InternalServerError(e)

\* The response of PUT /gateways/:gateway_id/tools/:target_id to a finished
\* updateGatewayTarget call.
UpdateToolResponse(res) ==
    IF res = Ok THEN Success(200, UpdateToolKeys) ELSE UpdateToolCatch(res)

\* ------------------------------------------------------------ gateways
GwId(i) == "gw" \o ToString(i)

GatewayIds == {GwId(1), GwId(2)}

GatewayExists(id) ==
    \E i \in 1..Len(gateways) : GwId(i) = id /\ ~gateways[i].deleted

Call_(op, params) == [op |-> op, params |-> params]

\* GatewayService.getGateway / updateGateway: not-found becomes a plain
\* Error with the gateway not-found message.
GatewayServiceError(e) ==
    IF e.name = "ResourceNotFoundException"
    THEN Err("Error", GatewayNotFoundMessage)
    ELSE e

\* A handler answers before its first await (its own input check threw):
\* the request, the calls it sent and its response are recorded.
Respond(r, log, res) ==
    /\ hreq' = r
    /\ hlog' = log
    /\ hres' = res
    /\ hpc' = "done"
    /\ hloc' = NoLocals
    /\ requests' = requests + 1

\* A handler sends its service call and awaits the answer: the event loop
\* is free until the service answers.
Await(r, call) ==
    /\ hreq' = r
    /\ hlog' = <<call>>
    /\ hres' = NoHttpResponse
    /\ hpc' = call.op
    /\ hloc' = NoLocals
    /\ requests' = requests + 1

\* The awaited call has returned or thrown and the handler answers.
Answer(res) ==
    /\ hres' = res
    /\ hpc' = "done"
    /\ UNCHANGED <<hreq, hloc, hlog, requests>>

\* HTTP requests handled so far: updates of a tool are counted by
\* updateGatewayTarget, the others by their handler.
Handled == requests + calls

\* No other request is being handled.
HttpIdle ==
    /\ hpc \in {"idle", "done"}
    /\ pc[1] \in {"idle", "done"}

updateVars == <<pc, req, given, shared, existing, readError, payload, result, reads, writes,
                stale, calls>>

MaxResultsValues == {None, Some(0), Some(1), Some(1000), Some(1001)}

\* max_results outside 1..1000
MaxResultsInvalid(maxResults) ==
    maxResults # None /\ (Get(maxResults) < 1 \/ Get(maxResults) > 1000)

\* Every answer the control service gives to a call that names a resource.
ResourceAnswers == {Ok, ResourceNotFound} \cup TransientErrors

\* GET /gateways
ListGateways(maxResults) ==
    /\ HttpIdle /\ Handled < MaxRequests
    /\ LET r == [endpoint |-> "GET /gateways", max_results |-> maxResults]
       IN  IF MaxResultsInvalid(maxResults)
           THEN Respond(r, <<>>, ListGatewaysCatch(BadRequest(MaxResultsMessage)))
           ELSE Await(r, Call_("ListGateways", maxResults))
    /\ UNCHANGED <<store, updateVars, directVars, env, gateways, bucketExists, objects,
                   providers, targets>>

\* ListGateways answers.
ListGatewaysReturns(out) ==
    /\ hpc = "ListGateways"
    /\ out \in {Ok} \cup TransientErrors
    /\ Answer(IF out = Ok THEN Success(200, ListKeys)
              ELSE ListGatewaysCatch(out))
    /\ UNCHANGED <<store, updateVars, directVars, env, gateways, bucketExists, objects,
                   providers, targets>>

\* GET /gateways/:gateway_id
GetGateway(id) ==
    /\ HttpIdle /\ Handled < MaxRequests
    /\ Await([endpoint |-> "GET /gateways/:gateway_id", gateway_id |-> id],
             Call_("GetGateway", id))
    /\ UNCHANGED <<store, updateVars, directVars, env, gateways, bucketExists, objects,
                   providers, targets>>

\* GetGateway answers from the gateways the service holds by then.
GetGatewayReturns(out) ==
    /\ hpc = "GetGateway"
    /\ out \in (IF GatewayExists(hreq.gateway_id) THEN {Ok}
                ELSE {ResourceNotFound}) \cup TransientErrors
    /\ Answer(IF out = Ok THEN Success(200, GatewayKeys)
              ELSE GetGatewayCatch(GatewayServiceError(out)))
    /\ UNCHANGED <<store, updateVars, directVars, env, gateways, bucketExists, objects,
                   providers, targets>>

\* Variant: the configured role is not passed on.
Gateway_NoRole(n, at, role, d) ==
    [name |-> n, protocolType |-> "MCP", authorizerType |-> at,
     roleArn |-> "", description |-> d, deleted |-> FALSE]

Gateway(n, at, role, d) ==
    [name |-> n, protocolType |-> "MCP", authorizerType |-> at,
     roleArn |-> role, description |-> d, deleted |-> FALSE]

CreateGatewayRequests ==
    [gateway_name : {"g1"},
     description : {None},
     auth_config : [user_pool_id : {"", "pool"},
                    client_id : {"", "client"},
                    discovery_url : {"", "https://idp/.well-known"}]]

\* POST /gateways
CreateGateway(r) ==
    /\ HttpIdle /\ Handled < MaxRequests
    /\ LET rq == [endpoint |-> "POST /gateways", body |-> r]
       IN  IF ~Truthy(env)
           THEN Respond(rq, <<>>,
                        CreateGatewayCatch(BadRequest(RoleNotConfiguredMessage)))
           ELSE IF r.auth_config.user_pool_id = ""
                   \/ r.auth_config.client_id = ""
                   \/ r.auth_config.discovery_url = ""
           THEN Respond(rq, <<>>,
                        CreateGatewayCatch(BadRequest(AuthConfigMessage)))
           ELSE Await(rq, Call_("CreateGateway",
                                Gateway(r.gateway_name, "CUSTOM_JWT", Get(env),
                                        r.description)))
    /\ UNCHANGED <<store, updateVars, directVars, env, gateways, bucketExists, objects,
                   providers, targets>>

\* POST /gateways/no-auth
CreateGatewayNoAuth(r) ==
    /\ HttpIdle /\ Handled < MaxRequests
    /\ LET rq == [endpoint |-> "POST /gateways/no-auth", body |-> r]
       IN  IF ~Truthy(env)
           THEN Respond(rq, <<>>,
                        CreateGatewayNoAuthCatch(
                            BadRequest(RoleNotConfiguredMessage)))
           ELSE Await(rq, Call_("CreateGateway",
                                Gateway(r.gateway_name, "NONE", Get(env),
                                        r.description)))
    /\ UNCHANGED <<store, updateVars, directVars, env, gateways, bucketExists, objects,
                   providers, targets>>

InvalidGatewayResponseMessage == "Invalid gateway response: <response>"

\* A successful answer of CreateGateway, with the gatewayId and gatewayUrl
\* members of the response (None for a member the response lacks).
GatewayResponse(id, url) ==
    [kind |-> "ok", name |-> "", message |-> "", gatewayId |-> id,
     gatewayUrl |-> url]

\* Every answer the control service gives to CreateGateway.
CreateGatewayAnswers ==
    {GatewayResponse(id, url) : id \in {None, Some(""), Some("gw1")},
                                url \in {None, Some("https://gw/mcp")}}
    \cup TransientErrors

\* GatewayService.createGateway after the command's answer: a response
\* without a gatewayId or a gatewayUrl is thrown as an Error, any other
\* response is returned and a thrown error is re-thrown.
CreateGatewayResult(out) ==
    IF out.kind = "ok"
       /\ (~Truthy(out.gatewayId) \/ ~Truthy(out.gatewayUrl))
    THEN Err("Error", InvalidGatewayResponseMessage)
    ELSE out

\* CreateGateway answers, for either creation endpoint: the service has
\* created the gateway whenever its answer is a response.
CreateGatewayReturns(out) ==
    /\ hpc = "CreateGateway"
    /\ out \in CreateGatewayAnswers
    /\ gateways' = IF out.kind = "ok" THEN Append(gateways, hlog[1].params)
                   ELSE gateways
    /\ LET gatewayInfo == CreateGatewayResult(out)
       IN  Answer(IF gatewayInfo.kind = "ok" THEN Success(201, GatewayKeys)
                  ELSE IF hreq.endpoint = "POST /gateways"
                       THEN CreateGatewayCatch(gatewayInfo)
                  ELSE CreateGatewayNoAuthCatch(gatewayInfo))
    /\ UNCHANGED <<store, updateVars, directVars, env, bucketExists, objects, providers,
                   targets>>

UpdateGatewayRequests ==
    [name : {"g2"},
     protocol_type : {"MCP", "HTTP"},
     authorizer_type : {"CUSTOM_JWT", "AWS_IAM", "NONE", "BASIC"},
     role_arn : {"arn:aws:iam::123456789012:role/other"},
     description : {None}]

\* PUT /gateways/:gateway_id
UpdateGateway(id, r) ==
    /\ HttpIdle /\ Handled < MaxRequests
    /\ LET rq == [endpoint |-> "PUT /gateways/:gateway_id", gateway_id |-> id,
                  body |-> r]
       IN  IF r.authorizer_type \notin {"CUSTOM_JWT", "AWS_IAM", "NONE"}
           THEN Respond(rq, <<>>,
                        UpdateGatewayCatch(BadRequest(AuthorizerTypeMessage)))
           ELSE IF r.protocol_type # "MCP"
           THEN Respond(rq, <<>>,
                        UpdateGatewayCatch(BadRequest(ProtocolTypeMessage)))
           ELSE Await(rq, Call_("UpdateGateway", id))
    /\ UNCHANGED <<store, updateVars, directVars, env, gateways, bucketExists, objects,
                   providers, targets>>

\* UpdateGateway answers.
UpdateGatewayReturns(out) ==
    /\ hpc = "UpdateGateway"
    /\ out \in (IF GatewayExists(hreq.gateway_id) THEN {Ok}
                ELSE {ResourceNotFound}) \cup TransientErrors
    /\ gateways' =
         IF out = Ok
         THEN [i \in 1..Len(gateways) |->
                 IF GwId(i) = hreq.gateway_id
                 THEN [gateways[i] EXCEPT
                         !.name = hreq.body.name,
                         !.protocolType = hreq.body.protocol_type,
                         !.authorizerType = hreq.body.authorizer_type,
                         !.roleArn = hreq.body.role_arn,
                         !.description = hreq.body.description]
                 ELSE gateways[i]]
         ELSE gateways
    /\ Answer(IF out = Ok THEN Success(200, GatewayKeys)
              ELSE UpdateGatewayCatch(GatewayServiceError(out)))
    /\ UNCHANGED <<store, updateVars, directVars, env, bucketExists, objects, providers,
                   targets>>

\* DELETE /gateways/:gateway_id
DeleteGateway(id) ==
    /\ HttpIdle /\ Handled < MaxRequests
    /\ Await([endpoint |-> "DELETE /gateways/:gateway_id", gateway_id |-> id],
             Call_("DeleteGateway", id))
    /\ UNCHANGED <<store, updateVars, directVars, env, gateways, bucketExists, objects,
                   providers, targets>>

\* DeleteGateway answers: deleteGateway re-throws the service's error as it
\* is, and the handler's catch block has a single branch.
DeleteGatewayReturns(out) ==
    /\ hpc = "DeleteGateway"
    /\ out \in (IF GatewayExists(hreq.gateway_id) THEN {Ok}
                ELSE {ResourceNotFound}) \cup TransientErrors
    /\ gateways' =
         IF out = Ok
         THEN [i \in 1..Len(gateways) |->
                 IF GwId(i) = hreq.gateway_id
                 THEN [gateways[i] EXCEPT !.deleted = TRUE]
                 ELSE gateways[i]]
         ELSE gateways
    /\ Answer(IF out = Ok THEN Success(200, {"gateway_id", "status"})
              ELSE DeleteGatewayCatch(out))
    /\ UNCHANGED <<store, updateVars, directVars, env, bucketExists, objects, providers,
                   targets>>

\* A DELETE /gateways/:gateway_id of another client, handled while the
\* request in hand awaits its answer: its DeleteGateway call is applied.
ConcurrentDeleteGateway(id) ==
    /\ hpc \notin {"idle", "done"}
    /\ GatewayExists(id)
    /\ gateways' = [i \in 1..Len(gateways) |->
                      IF GwId(i) = id
                      THEN [gateways[i] EXCEPT !.deleted = TRUE]
                      ELSE gateways[i]]
    /\ UNCHANGED <<store, updateVars, directVars, env, bucketExists, objects,
                   providers, targets, hreq, hpc, hloc, hlog, hres, requests>>

\* ------------------------------------------------- tools: list, get, delete
\* GET /gateways/:gateway_id/tools
ListTools(maxResults) ==
    /\ HttpIdle /\ Handled < MaxRequests
    /\ LET r == [endpoint |-> "GET /gateways/:gateway_id/tools",
                 max_results |-> maxResults]
       IN  IF MaxResultsInvalid(maxResults)
           THEN Respond(r, <<>>, ListToolsCatch(BadRequest(MaxResultsMessage)))
           ELSE Await(r, Call_("ListGatewayTargets", maxResults))
    /\ UNCHANGED <<store, updateVars, directVars, env, gateways, bucketExists, objects,
                   providers, targets>>

\* ListGatewayTargets answers.
ListToolsReturns(out) ==
    /\ hpc = "ListGatewayTargets"
    /\ out \in {Ok} \cup TransientErrors
    /\ Answer(IF out = Ok THEN Success(200, ListKeys) ELSE ListToolsCatch(out))
    /\ UNCHANGED <<store, updateVars, directVars, env, gateways, bucketExists, objects,
                   providers, targets>>

\* GET /gateways/:gateway_id/tools/:target_id
GetTool ==
    /\ HttpIdle /\ Handled < MaxRequests
    /\ Await([endpoint |-> "GET /gateways/:gateway_id/tools/:target_id"],
             Call_("GetGatewayTarget", ""))
    /\ UNCHANGED <<store, updateVars, directVars, env, gateways, bucketExists, objects,
                   providers, targets>>

\* GetGatewayTarget answers.
GetToolReturns(out) ==
    /\ hpc = "GetGatewayTarget"
    /\ out \in (IF store # None THEN {Ok} ELSE {}) \cup GetFailures
    /\ Answer(IF out = Ok THEN Success(200, ToolKeys)
              ELSE GetToolCatch(GetGatewayTargetError(out)))
    /\ UNCHANGED <<store, updateVars, directVars, env, gateways, bucketExists, objects,
                   providers, targets>>

\* deleteGatewayTarget's catch block.
DeleteGatewayTargetError(e) ==
    IF e.name = "ResourceNotFoundException"
    THEN Err("Error", NotFoundMessage)
    ELSE e

\* DELETE /gateways/:gateway_id/tools/:target_id
DeleteTool ==
    /\ HttpIdle /\ Handled < MaxRequests
    /\ Await([endpoint |-> "DELETE /gateways/:gateway_id/tools/:target_id"],
             Call_("DeleteGatewayTarget", ""))
    /\ UNCHANGED <<store, updateVars, directVars, env, gateways, bucketExists, objects,
                   providers, targets>>

\* DeleteGatewayTarget answers.
DeleteToolReturns(out) ==
    /\ hpc = "DeleteGatewayTarget"
    /\ out \in (IF store # None THEN {Ok} ELSE {ResourceNotFound})
                  \cup TransientErrors
    /\ store' = IF out = Ok THEN None ELSE store
    /\ Answer(IF out = Ok THEN Success(200, DeleteToolKeys)
              ELSE DeleteToolCatch(DeleteGatewayTargetError(out)))
    /\ UNCHANGED <<updateVars, directVars, env, gateways, bucketExists, objects,
                   providers, targets>>

\* PUT /gateways/:gateway_id/tools/:target_id: the handler awaits
\* updateGatewayTarget (updater 1) and answers with UpdateToolResponse.
UpdateTool(r) ==
    /\ hpc \in {"idle", "done"}
    /\ Handled < MaxRequests
    /\ Call(1, r)

\* -------------------------------------------------------- tool creation
OpenApiSpecsBucket == "agentcore-gateway-openapi-specs-bucket"

\* An error of the AWS SDK as the creation helpers inspect it: S3 errors
\* carry Code, every error carries $metadata.httpStatusCode.
AwsErr(n, c, h, m) ==
    [kind |-> "error", name |-> n, message |-> m, Code |-> c,
     httpStatusCode |-> h]

AwsTransientErrors ==
    {AwsErr("ThrottlingException", "", 429, "Rate exceeded"),
     AwsErr("AccessDeniedException", "", 403, "Access denied")}

ApiKeyRequiredMessage ==
    "api_key is required in auth.config when auth.type is \"api_key\""
ProviderNameRequiredMessage ==
    "auth.provider_name is required when auth.type is \"api_key\""
SpecFieldMessage == "OpenAPI spec must contain 'openapi' or 'swagger' field"
ProviderExistsMessage ==
    "Credential provider '<name>' already exists. Please use a unique name or handle provider updates manually."
TargetExistsMessage == "Target '<name>' already exists on gateway <id>"

\* Variant: provider_name is checked before config.api_key.
ValidateAuth_ProviderFirst(auth) ==
    IF auth = None THEN None
    ELSE IF Get(auth).type # "api_key" THEN None
    ELSE IF ~Truthy(Get(auth).provider_name)
         THEN Some(BadRequest(ProviderNameRequiredMessage))
    ELSE IF ~Truthy(Get(auth).config.api_key)
         THEN Some(BadRequest(ApiKeyRequiredMessage))
    ELSE None

\* ValidationsService.validateAuth: the exception it throws, None if none.
ValidateAuth(auth) ==
    IF auth = None THEN None
    ELSE IF Get(auth).type # "api_key" THEN None
    ELSE IF ~Truthy(Get(auth).config.api_key)
         THEN Some(BadRequest(ApiKeyRequiredMessage))
    ELSE IF ~Truthy(Get(auth).provider_name)
         THEN Some(BadRequest(ProviderNameRequiredMessage))
    ELSE None

\* An OpenAPI document, as far as the API looks into it.
SpecDoc(o, sw) == [openapi |-> o, swagger |-> sw]

\* Variant: every document is accepted.
ValidateOpenApiSpec_Lenient(spec) == None

\* ValidationsService.validateOpenApiSpec: the exception it throws, if any.
ValidateOpenApiSpec(spec) ==
    IF ~Truthy(spec.openapi) /\ ~Truthy(spec.swagger)
    THEN Some(BadRequest(SpecFieldMessage))
    ELSE None

\* OpenApiGeneratorService.generateOpenApiSpec, its version field.
GeneratedSpec == SpecDoc(Some("3.1.0"), None)

\* The object key built by uploadOpenApiSpec.
ObjectKey(gatewayId, toolName, timestamp, randomId) ==
    "gateways/" \o gatewayId \o "/tools/" \o toolName \o "/"
        \o ToString(timestamp) \o "-" \o randomId \o ".json"

S3Uri(bucket, key) == "s3://" \o bucket \o "/" \o key

Timestamps == {1700000000}
RandomIds == {"0a1b2c3d4e5f6071", "8899aabbccddeeff"}

\* Variant: the caller's parameter name and location are not taken over.
ProviderParams_KeepsPlaceholder(targetName, auth) ==
    IF auth # None /\ Get(auth).type = "api_key"
    THEN [apiKey |-> Get(Get(auth).config.api_key),
          apiKeyProviderName |-> Get(Get(auth).provider_name),
          apiKeyParamName |-> "X-Placeholder-Auth",
          apiKeyLocation |-> "HEADER"]
    ELSE [apiKey |-> "placeholder-not-used",
          apiKeyProviderName |-> targetName \o "-placeholder-apikey",
          apiKeyParamName |-> "X-Placeholder-Auth",
          apiKeyLocation |-> "HEADER"]

\* registerToolWithGateway: the provider and parameter it registers with.
ProviderParams(targetName, auth) ==
    IF auth # None /\ Get(auth).type = "api_key"
    THEN [apiKey |-> Get(Get(auth).config.api_key),
          apiKeyProviderName |-> Get(Get(auth).provider_name),
          apiKeyParamName |->
              IF Truthy(Get(auth).config.api_key_param_name)
              THEN Get(Get(auth).config.api_key_param_name) ELSE "api_key",
          apiKeyLocation |->
              IF Truthy(Get(auth).config.api_key_location)
              THEN Get(Get(auth).config.api_key_location)
              ELSE "QUERY_PARAMETER"]
    ELSE [apiKey |-> "placeholder-not-used",
          apiKeyProviderName |-> targetName \o "-placeholder-apikey",
          apiKeyParamName |-> "X-Placeholder-Auth",
          apiKeyLocation |-> "HEADER"]

ProviderArn(name) ==
    "arn:aws:bedrock-agentcore:us-east-1:123456789012:token-vault/default/apikeycredentialprovider/"
        \o name

\* The CreateGatewayTargetCommand input built by createGatewayTarget.
CreateTargetInput(gatewayId, targetName, openApiS3Uri, providerArn, apiKeyParamName, apiKeyLocation, description) ==
    [gatewayIdentifier |-> gatewayId,
     name |-> targetName,
     description |-> IF Truthy(description) THEN Get(description)
                     ELSE "OpenAPI target: " \o targetName,
     targetConfiguration |-> Cfg(4, openApiS3Uri, ""),
     credentialProviderConfigurations |->
        << [credentialProviderType |-> "API_KEY",
            credentialParameterName |-> apiKeyParamName,
            providerArn |-> providerArn,
            credentialLocation |-> apiKeyLocation] >>]

\* error.message?.includes('already exists')
IncludesAlreadyExists(m) ==
    m \in {"Credential provider already exists", ProviderExistsMessage}

\* createOrGetApiKeyCredentialProvider's catch block.
CredentialProviderError(e) ==
    IF IncludesAlreadyExists(e.message) \/ e.Code = "EntityAlreadyExists"
    THEN AwsErr("Error", "", 0, ProviderExistsMessage)
    ELSE e

\* createGatewayTarget's catch block.
CreateGatewayTargetError(e) ==
    IF e.Code = "ConflictException"
    THEN AwsErr("Error", "", 0, TargetExistsMessage)
    ELSE e

\* Variant: a duplicate target name is answered with 409 Conflict.
CreateToolFromUrlCatch_Conflict409(e) ==
    IF e.message = TargetExistsMessage \/ e.name = "ConflictException"
    THEN [status |-> 409, keys |-> {"status", "error"}, error |-> e.message]
    ELSE InternalServerError(e)

\* The catch block of the three tool-creation handlers.
CreateToolFromUrlCatch(e) == InternalServerError(e)

CreateToolFromApiInfoCatch(e) == InternalServerError(e)

CreateToolFromSpecCatch(e) ==
    IF e.name = "BadRequestException" THEN BadRequestResponse(e)
    ELSE InternalServerError(e)

CreateToolCatch(endpoint, e) ==
    IF endpoint = "POST /tools/from-url" THEN CreateToolFromUrlCatch(e)
    ELSE IF endpoint = "POST /tools/from-api-info"
         THEN CreateToolFromApiInfoCatch(e)
    ELSE CreateToolFromSpecCatch(e)

CreateToolKeys ==
    {"status", "tool_name", "gateway_id", "openapi_spec_path", "message",
     "target_id", "gateway_arn", "description", "created_at", "updated_at",
     "last_synchronized_at", "target_status", "status_reasons",
     "target_configuration", "credential_provider_configurations"}

AuthConfig(k, pn, loc) ==
    [api_key |-> k, api_key_param_name |-> pn, api_key_location |-> loc]

AuthConfigs ==
    {AuthConfig(None, None, None),
     AuthConfig(Some("secret"), None, None),
     AuthConfig(Some("secret"), Some(""), None),
     AuthConfig(Some("secret"), Some("X-Api-Key"), Some("HEADER"))}

AuthValues ==
    {None,
     Some([type |-> "oauth", provider_name |-> None,
           config |-> AuthConfig(None, None, None)])}
    \cup {Some([type |-> "api_key", provider_name |-> pn, config |-> c]) :
            pn \in {None, Some("p1")}, c \in AuthConfigs}

SpecDocs ==
    {SpecDoc(Some("3.0.0"), None), SpecDoc(None, Some("2.0")),
     SpecDoc(None, None)}

\* The bodies of the three tool-creation requests.  spec is the document in
\* the body (from-spec) or the one the URL serves (from-url); a from-api-info
\* body holds none.
CreateToolRequests ==
    [endpoint : {"POST /tools/from-url", "POST /tools/from-spec"},
     gateway_id : {"G0"},
     tool_name : {"t1", "t2"},
     auth : AuthValues,
     spec : SpecDocs,
     description : {None}]
    \cup
    [endpoint : {"POST /tools/from-api-info"},
     gateway_id : {"G0"},
     tool_name : {"t1", "t2"},
     auth : AuthValues,
     spec : {SpecDoc(None, None)},
     description : {None}]

createVars == <<store, updateVars, directVars, env, gateways>>

\* The handler throws e: its catch block answers.
Throw(e) ==
    /\ hres' = CreateToolCatch(hreq.endpoint, e)
    /\ hpc' = "done"
    /\ UNCHANGED <<hreq, hloc, hlog, requests>>

\* The part of uploadOpenApiSpec up to the first await of ensureS3Bucket:
\* the HeadBucket request is sent.
SendHeadBucket(rq, spec, log) ==
    /\ hreq' = rq
    /\ hloc' = [NoLocals EXCEPT !.spec = Some(spec),
                                !.bucket = OpenApiSpecsBucket]
    /\ hlog' = Append(log, Call_("HeadBucket", OpenApiSpecsBucket))
    /\ hpc' = "HeadBucket"
    /\ hres' = NoHttpResponse

\* A tool-creation handler starts: validateAuth, then the spec is taken
\* from the body, generated, or fetched from the URL.
StartCreateTool(r) ==
    /\ HttpIdle /\ Handled < MaxRequests
    /\ requests' = requests + 1
    /\ LET rq == r
       IN  IF ValidateAuth(r.auth) # None
           THEN /\ hreq' = rq /\ hloc' = NoLocals /\ hlog' = <<>>
                /\ hpc' = "done"
                /\ hres' = CreateToolCatch(r.endpoint, Get(ValidateAuth(r.auth)))
           ELSE IF r.endpoint = "POST /tools/from-url"
           THEN /\ hreq' = rq /\ hloc' = NoLocals
                /\ hlog' = <<Call_("HttpGet", "openapi_spec_url")>>
                /\ hpc' = "Download"
                /\ hres' = NoHttpResponse
           ELSE IF r.endpoint = "POST /tools/from-api-info"
           THEN SendHeadBucket(rq, GeneratedSpec, <<>>)
           ELSE IF ValidateOpenApiSpec(r.spec) # None
           THEN /\ hreq' = rq /\ hloc' = NoLocals /\ hlog' = <<>>
                /\ hpc' = "done"
                /\ hres' = CreateToolCatch(r.endpoint,
                                           Get(ValidateOpenApiSpec(r.spec)))
           ELSE SendHeadBucket(rq, r.spec, <<>>)
    /\ UNCHANGED <<createVars, bucketExists, objects, providers, targets>>

\* downloadAndCreateTool: axios.get answers or fails, then the spec is
\* validated and the upload starts.
DownloadReturns(ok) ==
    /\ hpc = "Download"
    /\ IF ~ok
       THEN Throw(AwsErr("AxiosError", "", 0, "Request failed with status code 503"))
       ELSE IF ValidateOpenApiSpec(hreq.spec) # None
       THEN Throw(Get(ValidateOpenApiSpec(hreq.spec)))
       ELSE /\ SendHeadBucket(hreq, hreq.spec, hlog)
            /\ UNCHANGED requests
    /\ UNCHANGED <<createVars, bucketExists, objects, providers, targets>>

\* Variant: the PutObject request is sent twice.
SendPutObject_Twice ==
    \E ts \in Timestamps, rid \in RandomIds :
        LET key == ObjectKey(hreq.gateway_id, hreq.tool_name, ts, rid)
            put == Call_("PutObject", [Bucket |-> hloc.bucket, Key |-> key])
        IN  /\ hloc' = [hloc EXCEPT !.key = key]
            /\ hlog' = hlog \o <<put, put>>
            /\ hpc' = "PutObject"
            /\ UNCHANGED <<hreq, hres, requests>>

\* uploadOpenApiSpec after ensureS3Bucket: the key is built and the
\* PutObject request is sent.
SendPutObject ==
    \E ts \in Timestamps, rid \in RandomIds :
        LET key == ObjectKey(hreq.gateway_id, hreq.tool_name, ts, rid)
        IN  /\ hloc' = [hloc EXCEPT !.key = key]
            /\ hlog' = Append(hlog, Call_("PutObject",
                                          [Bucket |-> hloc.bucket, Key |-> key]))
            /\ hpc' = "PutObject"
            /\ UNCHANGED <<hreq, hres, requests>>

\* Every answer HeadBucket can give, and those it gives in this state.
HeadBucketAnswers ==
    {Ok, AwsErr("NotFound", "", 404, "NotFound"),
     AwsErr("Forbidden", "", 403, "Forbidden")}

HeadBucketOutcomes ==
    {out \in HeadBucketAnswers :
        IF out = Ok THEN bucketExists
        ELSE IF out.httpStatusCode = 404 THEN ~bucketExists
        ELSE TRUE}

\* Variant: every HeadBucket failure is taken for a missing bucket.
HeadBucketReturns_CreateOnAnyError(out) ==
    /\ hpc = "HeadBucket"
    /\ out \in HeadBucketOutcomes
    /\ IF out = Ok
       THEN SendPutObject
       ELSE /\ hlog' = Append(hlog, Call_("CreateBucket", hloc.bucket))
            /\ hpc' = "CreateBucket"
            /\ UNCHANGED <<hreq, hloc, hres, requests>>
    /\ UNCHANGED <<createVars, bucketExists, objects, providers, targets>>

\* ensureS3Bucket: HeadBucket answers.
HeadBucketReturns(out) ==
    /\ hpc = "HeadBucket"
    /\ out \in HeadBucketOutcomes
    /\ IF out = Ok
       THEN SendPutObject
       ELSE IF out.Code = "NoSuchBucket" \/ out.httpStatusCode = 404
       THEN /\ hlog' = Append(hlog, Call_("CreateBucket", hloc.bucket))
            /\ hpc' = "CreateBucket"
            /\ UNCHANGED <<hreq, hloc, hres, requests>>
       ELSE Throw(out)
    /\ UNCHANGED <<createVars, bucketExists, objects, providers, targets>>

CreateBucketAnswers ==
    {Ok,
     AwsErr("BucketAlreadyOwnedByYou", "BucketAlreadyOwnedByYou", 409,
            "Your previous request to create the named bucket succeeded and you already own it."),
     AwsErr("AccessDenied", "AccessDenied", 403, "Access Denied")}

CreateBucketOutcomes ==
    {out \in CreateBucketAnswers :
        IF out = Ok THEN ~bucketExists
        ELSE IF out.httpStatusCode = 409 THEN bucketExists
        ELSE TRUE}

\* ensureS3Bucket: CreateBucket answers.
CreateBucketReturns(out) ==
    /\ hpc = "CreateBucket"
    /\ out \in CreateBucketOutcomes
    /\ bucketExists' = (bucketExists \/ out = Ok)
    /\ IF out = Ok
       THEN SendPutObject
       ELSE IF out.Code = "BucketAlreadyOwnedByYou"
               \/ out.Code = "BucketAlreadyExists"
       THEN SendPutObject
       ELSE Throw(out)
    /\ UNCHANGED <<createVars, objects, providers, targets>>

PutObjectAnswers ==
    {Ok,
     AwsErr("NoSuchBucket", "NoSuchBucket", 404, "The specified bucket does not exist"),
     AwsErr("SlowDown", "SlowDown", 503, "Please reduce your request rate.")}

PutObjectOutcomes ==
    {out \in PutObjectAnswers :
        IF out = Ok THEN bucketExists
        ELSE IF out.httpStatusCode = 404 THEN ~bucketExists
        ELSE TRUE}

\* uploadOpenApiSpec: PutObject answers; createToolWithSpec goes on to
\* registerToolWithGateway, which sends CreateApiKeyCredentialProvider.
PutObjectReturns(out) ==
    /\ hpc = "PutObject"
    /\ out \in PutObjectOutcomes
    /\ IF out = Ok
       THEN /\ objects' = objects \cup {[Bucket |-> hloc.bucket, Key |-> hloc.key]}
            /\ hloc' = [hloc EXCEPT !.s3Uri = S3Uri(hloc.bucket, hloc.key)]
            /\ hlog' = Append(hlog,
                        Call_("CreateApiKeyCredentialProvider",
                              ProviderParams(hreq.tool_name, hreq.auth).apiKeyProviderName))
            /\ hpc' = "CreateProvider"
            /\ UNCHANGED <<hreq, hres, requests>>
       ELSE /\ Throw(out)
            /\ UNCHANGED objects
    /\ UNCHANGED <<createVars, bucketExists, providers, targets>>

ProviderExistsErrors ==
    {AwsErr("ConflictException", "", 409, "Credential provider already exists"),
     AwsErr("ValidationException", "EntityAlreadyExists", 400, "Duplicate name")}

\* The provider names a tool-creation request can register.
ProviderNames == {"p1", "t1-placeholder-apikey", "t2-placeholder-apikey"}

\* A successful answer of CreateApiKeyCredentialProvider, with the
\* credentialProviderArn member of the response (None when it has none).
ProviderResponse(arn) ==
    [kind |-> "ok", name |-> "", message |-> "", credentialProviderArn |-> arn]

\* Every answer the service gives to CreateApiKeyCredentialProvider.
CreateProviderAnswers ==
    {ProviderResponse(arn) :
        arn \in {None} \cup {Some(ProviderArn(n)) : n \in ProviderNames}}
    \cup ProviderExistsErrors \cup AwsTransientErrors

\* The answers possible in the current state: a response for a new name,
\* carrying no ARN or the ARN of the provider created, an already-exists
\* error for a name in use, a transient error at any time.
CreateProviderOutcomes ==
    {out \in CreateProviderAnswers :
        LET n == ProviderParams(hreq.tool_name, hreq.auth).apiKeyProviderName
        IN  IF out.kind = "ok"
            THEN /\ n \notin providers
                 /\ Truthy(out.credentialProviderArn)
                       => Get(out.credentialProviderArn) = ProviderArn(n)
            ELSE IF out \in ProviderExistsErrors THEN n \in providers
            ELSE TRUE}

\* response.credentialProviderArn || ''
CredentialProviderArn(response) ==
    IF Truthy(response.credentialProviderArn)
    THEN Get(response.credentialProviderArn)
    ELSE ""

\* createOrGetApiKeyCredentialProvider: the service answers; on a response
\* the provider exists, the method returns the response's ARN or '' and
\* registerToolWithGateway sends CreateGatewayTarget with what it returned.
CreateProviderReturns(out) ==
    /\ hpc = "CreateProvider"
    /\ out \in CreateProviderOutcomes
    /\ LET pp == ProviderParams(hreq.tool_name, hreq.auth)
       IN  IF out.kind = "ok"
           THEN /\ providers' = providers \cup {pp.apiKeyProviderName}
                /\ hloc' = [hloc EXCEPT
                               !.response = Some(out),
                               !.credentialProviderArn =
                                   CredentialProviderArn(out)]
                /\ hlog' = Append(hlog,
                            Call_("CreateGatewayTarget",
                                  CreateTargetInput(hreq.gateway_id,
                                      hreq.tool_name, hloc.s3Uri,
                                      CredentialProviderArn(out),
                                      pp.apiKeyParamName, pp.apiKeyLocation,
                                      hreq.description)))
                /\ hpc' = "CreateTarget"
                /\ UNCHANGED <<hreq, hres, requests>>
           ELSE /\ Throw(CredentialProviderError(out))
                /\ UNCHANGED providers
    /\ UNCHANGED <<createVars, bucketExists, objects, targets>>

TargetConflictErrors ==
    {AwsErr("ConflictException", "", 409, "Target name already in use"),
     AwsErr("ConflictException", "ConflictException", 409,
            "Target name already in use")}

CreateTargetAnswers == {Ok} \cup TargetConflictErrors \cup AwsTransientErrors

CreateTargetOutcomes ==
    {out \in CreateTargetAnswers :
        LET taken == \E t \in targets :
                        /\ t.gatewayIdentifier = hreq.gateway_id
                        /\ t.name = hreq.tool_name
        IN  IF out = Ok THEN ~taken
            ELSE IF out \in TargetConflictErrors THEN taken
            ELSE TRUE}

\* createGatewayTarget: the service answers and the handler responds.
CreateTargetReturns(out) ==
    /\ hpc = "CreateTarget"
    /\ out \in CreateTargetOutcomes
    /\ IF out = Ok
       THEN /\ targets' = targets \cup {hlog[Len(hlog)].params}
            /\ hres' = Success(201, CreateToolKeys)
            /\ hpc' = "done"
            /\ UNCHANGED <<hreq, hloc, hlog, requests>>
       ELSE /\ Throw(CreateGatewayTargetError(out))
            /\ UNCHANGED targets
    /\ UNCHANGED <<createVars, bucketExists, objects, providers>>

\* ------------------------------------------------------------ the API
\* The server's environment and the services when the API starts.
InitApi ==
    /\ DirectQuiet
    /\ store \in InitialTargets
    /\ pc = [p \in Procs |-> "idle"]
    /\ req = [p \in Procs |-> NoRequest]
    /\ given = [p \in Procs |-> NoRequest]
    /\ shared = FALSE
    /\ existing = [p \in Procs |-> None]
    /\ readError = [p \in Procs |-> None]
    /\ payload = [p \in Procs |-> NoPayload]
    /\ result = [p \in Procs |-> Pending]
    /\ reads = [p \in Procs |-> 0]
    /\ writes = [p \in Procs |-> 0]
    /\ stale = [p \in Procs |-> FALSE]
    /\ calls = 0
    /\ env \in {None, Some(""), Some(GatewayRoleArn)}
    /\ gateways = <<>>
    /\ bucketExists = FALSE
    /\ objects = {}
    /\ providers = {}
    /\ targets = {}
    /\ hreq = NoHttpRequest
    /\ hpc = "idle"
    /\ hloc = NoLocals
    /\ hlog = <<>>
    /\ hres = NoHttpResponse
    /\ requests = 0

\* HTTP requests of one client, who sends the next when the last was
\* answered; while a request awaits the service, requests of other clients
\* delete gateways or the target.
NextApi ==
    \/ \E m \in MaxResultsValues : ListGateways(m)
    \/ \E id \in GatewayIds : GetGateway(id)
    \/ \E r \in CreateGatewayRequests : CreateGateway(r)
    \/ \E r \in [gateway_name : {"g1"}, description : {None}] :
            CreateGatewayNoAuth(r)
    \/ \E id \in GatewayIds, r \in UpdateGatewayRequests : UpdateGateway(id, r)
    \/ \E id \in GatewayIds : DeleteGateway(id)
    \/ \E m \in MaxResultsValues : ListTools(m)
    \/ GetTool
    \/ DeleteTool
    \/ \E out \in ResourceAnswers : ListGatewaysReturns(out)
    \/ \E out \in ResourceAnswers : GetGatewayReturns(out)
    \/ \E out \in CreateGatewayAnswers : CreateGatewayReturns(out)
    \/ \E out \in ResourceAnswers : UpdateGatewayReturns(out)
    \/ \E out \in ResourceAnswers : DeleteGatewayReturns(out)
    \/ \E out \in ResourceAnswers : ListToolsReturns(out)
    \/ \E out \in ResourceAnswers : GetToolReturns(out)
    \/ \E out \in ResourceAnswers : DeleteToolReturns(out)
    \/ \E id \in GatewayIds : ConcurrentDeleteGateway(id)
    \/ DeleteGatewayTarget
    \/ \E r \in RaceRequests : UpdateTool(r)
    \/ GetSucceeds(1)
    \/ \E e \in GetFailures : GetFails(1, e)
    \/ UpdateSucceeds(1)
    \/ \E e \in UpdateFailures : UpdateFails(1, e)

SpecApi == InitApi /\ [][NextApi]_vars

\* The services when the tool-creation endpoints are used.
InitCreate ==
    /\ DirectQuiet
    /\ store = None
    /\ pc = [p \in Procs |-> "idle"]
    /\ req = [p \in Procs |-> NoRequest]
    /\ given = [p \in Procs |-> NoRequest]
    /\ shared = FALSE
    /\ existing = [p \in Procs |-> None]
    /\ readError = [p \in Procs |-> None]
    /\ payload = [p \in Procs |-> NoPayload]
    /\ result = [p \in Procs |-> Pending]
    /\ reads = [p \in Procs |-> 0]
    /\ writes = [p \in Procs |-> 0]
    /\ stale = [p \in Procs |-> FALSE]
    /\ calls = 0
    /\ env = Some(GatewayRoleArn)
    /\ gateways = <<>>
    /\ bucketExists \in BOOLEAN
    /\ objects = {}
    /\ providers = {}
    /\ targets = {}
    /\ hreq = NoHttpRequest
    /\ hpc = "idle"
    /\ hloc = NoLocals
    /\ hlog = <<>>
    /\ hres = NoHttpResponse
    /\ requests = 0

\* Tool-creation requests handled one at a time.
NextCreate ==
    \/ \E r \in CreateToolRequests : StartCreateTool(r)
    \/ \E ok \in BOOLEAN : DownloadReturns(ok)
    \/ \E out \in HeadBucketAnswers : HeadBucketReturns(out)
    \/ \E out \in CreateBucketAnswers : CreateBucketReturns(out)
    \/ \E out \in PutObjectAnswers : PutObjectReturns(out)
    \/ \E out \in CreateProviderAnswers : CreateProviderReturns(out)
    \/ \E out \in CreateTargetAnswers : CreateTargetReturns(out)

SpecCreate == InitCreate /\ [][NextCreate]_vars

\* Tool-creation requests without api_key auth, on two gateways.
NoApiKeyRequests ==
    [endpoint : {"POST /tools/from-url", "POST /tools/from-spec"},
     gateway_id : {"G0", "G1"},
     tool_name : {"t1", "t2"},
     auth : {a \in AuthValues : a = None \/ Get(a).type # "api_key"},
     spec : SpecDocs,
     description : {None}]
    \cup
    [endpoint : {"POST /tools/from-api-info"},
     gateway_id : {"G0", "G1"},
     tool_name : {"t1", "t2"},
     auth : {a \in AuthValues : a = None \/ Get(a).type # "api_key"},
     spec : {SpecDoc(None, None)},
     description : {None}]

NextNoApiKey ==
    \/ \E r \in NoApiKeyRequests : StartCreateTool(r)
    \/ \E ok \in BOOLEAN : DownloadReturns(ok)
    \/ \E out \in HeadBucketAnswers : HeadBucketReturns(out)
    \/ \E out \in CreateBucketAnswers : CreateBucketReturns(out)
    \/ \E out \in PutObjectAnswers : PutObjectReturns(out)
    \/ \E out \in CreateProviderAnswers : CreateProviderReturns(out)
    \/ \E out \in CreateTargetAnswers : CreateTargetReturns(out)

SpecNoApiKey == InitCreate /\ [][NextNoApiKey]_vars

\* Every endpoint of the API with well-formed requests, the services
\* answering in every way they can.
NextAll ==
    \/ ListGateways(Some(1))
    \/ GetGateway(GwId(1))
    \/ \E r \in {x \in CreateGatewayRequests :
                    /\ x.auth_config.user_pool_id # ""
                    /\ x.auth_config.client_id # ""
                    /\ x.auth_config.discovery_url # ""} : CreateGateway(r)
    \/ CreateGatewayNoAuth([gateway_name |-> "g1", description |-> None])
    \/ \E r \in {x \in UpdateGatewayRequests :
                    /\ x.authorizer_type = "CUSTOM_JWT"
                    /\ x.protocol_type = "MCP"} : UpdateGateway(GwId(1), r)
    \/ DeleteGateway(GwId(1))
    \/ ListTools(Some(1))
    \/ GetTool
    \/ DeleteTool
    \/ \E out \in ResourceAnswers : ListGatewaysReturns(out)
    \/ \E out \in ResourceAnswers : GetGatewayReturns(out)
    \/ \E out \in CreateGatewayAnswers : CreateGatewayReturns(out)
    \/ \E out \in ResourceAnswers : UpdateGatewayReturns(out)
    \/ \E out \in ResourceAnswers : DeleteGatewayReturns(out)
    \/ \E out \in ResourceAnswers : ListToolsReturns(out)
    \/ \E out \in ResourceAnswers : GetToolReturns(out)
    \/ \E out \in ResourceAnswers : DeleteToolReturns(out)
    \/ \E r \in {x \in RaceRequests : x.description = None} : UpdateTool(r)
    \/ GetSucceeds(1)
    \/ \E e \in GetFailures : GetFails(1, e)
    \/ UpdateSucceeds(1)
    \/ \E e \in UpdateFailures : UpdateFails(1, e)
    \/ \E r \in {x \in CreateToolRequests :
                    /\ x.tool_name = "t1"
                    /\ ValidateAuth(x.auth) = None
                    /\ x.auth # None => Get(x.auth).config.api_key_param_name = None
                    /\ x.spec.swagger = None} : StartCreateTool(r)
    \/ \E ok \in BOOLEAN : DownloadReturns(ok)
    \/ \E out \in HeadBucketAnswers : HeadBucketReturns(out)
    \/ \E out \in CreateBucketAnswers : CreateBucketReturns(out)
    \/ \E out \in PutObjectAnswers : PutObjectReturns(out)
    \/ \E out \in CreateProviderAnswers : CreateProviderReturns(out)
    \/ \E out \in CreateTargetAnswers : CreateTargetReturns(out)

SpecAll == Init /\ [][NextAll]_vars

\* ------------------------------------------- methods called on their own
\* The auth arguments validateAuth is called with: absent, or an object of
\* either type whose provider_name and config.api_key are absent, empty or
\* set.  A missing config reads like one without api_key (auth.config?.api_key).
AuthInputs ==
    {None} \cup
    {Some([type |-> t, provider_name |-> pn, config |-> AuthConfig(k, n, l)]) :
        t \in {"api_key", "oauth"},
        pn \in {None, Some(""), Some("p1")},
        k \in {None, Some(""), Some("secret")},
        n \in {None, Some("X-Api-Key")},
        l \in {None, Some("HEADER")}}

\* validateAuth(auth) is called and returns or throws.
CallValidateAuth(auth) ==
    /\ fout = None
    /\ fin' = [method |-> "validateAuth", auth |-> auth]
    /\ fout' = IF ValidateAuth(auth) = None THEN Some(Ok)
               ELSE ValidateAuth(auth)
    /\ UNCHANGED <<store, updateVars, apiVars, up>>

\* ------------------------------------------------ OpenApiGeneratorService
\* URLs are sequences of characters, so that split and new URL() work on
\* them as they do on strings.
Http == <<"h", "t", "t", "p", ":", "/", "/">>
HostName == <<"h", ".", "i", "o">>
ApiHostName == <<"a", "p", "i", ".", "i", "o">>
SegApi == <<"/", "a", "p", "i">>
SegV1 == <<"/", "v", "1">>
SegPets == <<"/", "p", "e", "t", "s">>
Query == <<"?", "q", "=", "1">>

\* The url arguments: with the path under /api, with /api deeper in the
\* path, without /api, without a path, with a query string, on a host
\* whose name starts with api, and one new URL() cannot parse.
Urls ==
    {Http \o HostName \o SegApi \o SegPets,
     Http \o HostName \o SegApi,
     Http \o HostName \o SegV1 \o SegApi \o SegPets,
     Http \o HostName \o SegV1 \o SegPets,
     Http \o HostName,
     Http \o HostName \o SegApi \o SegPets \o Query,
     Http \o ApiHostName \o SegPets,
     HostName \o SegApi \o SegPets}

\* pat occurs in str at position i.
OccursAt(str, i, pat) ==
    /\ i + Len(pat) - 1 <= Len(str)
    /\ \A j \in 1..Len(pat) : str[i + j - 1] = pat[j]

\* The positions at which pat occurs in str.
Occurrences(str, pat) == {i \in 1..Len(str) : OccursAt(str, i, pat)}

Min(S) == CHOOSE x \in S : \A y \in S : x <= y

\* str.split(pat)[0]: str up to the first occurrence of pat, all of str
\* when there is none.
SplitFirst(str, pat) ==
    IF Occurrences(str, pat) = {} THEN str
    ELSE SubSeq(str, 1, Min(Occurrences(str, pat)) - 1)

\* The first position from i on at which one of the characters stops occurs,
\* Len(str) + 1 when none does.
NextOf(str, i, stops) ==
    Min({j \in i..Len(str) : str[j] \in stops} \cup {Len(str) + 1})

\* new URL(url) for an http URL with a plain host and path: its origin and
\* pathname, None when the constructor throws.
ParseUrl(url) ==
    IF ~OccursAt(url, 1, Http) THEN None
    ELSE LET h == Len(Http) + 1
             e == NextOf(url, h, {"/", "?", "#"})
             q == NextOf(url, h, {"?", "#"})
         IN  IF e = h THEN None
             ELSE Some([origin |-> SubSeq(url, 1, e - 1),
                        pathname |-> IF e < q THEN SubSeq(url, e, q - 1)
                                     ELSE <<"/">>])

\* The path the generator derives from the url (lines 19-25).
PathOf(url) ==
    IF ParseUrl(url) = None THEN <<"/">> ELSE Get(ParseUrl(url)).pathname

\* String.prototype.toLowerCase on the method names used.
Methods == {"GET", "Post", "delete"}

ToLowerCase(m) ==
    CASE m = "GET" -> "get"
      [] m = "Post" -> "post"
      [] m = "delete" -> "delete"

\* Object.entries of a parameter object mapped to parameter objects.
Parameters(entries, location) ==
    [i \in 1..Len(entries) |->
        [name |-> entries[i][1],
         in |-> location,
         required |-> TRUE,
         schema |-> IF entries[i][2] # None THEN Get(entries[i][2])
                    ELSE "string"]]

\* `${a} ${b}`-style template strings are kept as the sequence of their
\* parts; a caller's description is a one-part text.
Text(t) == <<t>>

\* The url of the spec's server (line 107).
ServerUrl(url) == SplitFirst(url, SegApi)

\* Variant: the header parameters are listed before the query parameters.
GenerateParameters_HeadersFirst(queryParams, headers) ==
    (IF headers # None THEN Parameters(Get(headers), "header") ELSE <<>>)
        \o (IF queryParams # None THEN Parameters(Get(queryParams), "query")
            ELSE <<>>)

\* The parameters array (lines 27-52).
GenerateParameters(queryParams, headers) ==
    (IF queryParams # None THEN Parameters(Get(queryParams), "query")
     ELSE <<>>)
        \o (IF headers # None THEN Parameters(Get(headers), "header")
            ELSE <<>>)

\* OpenApiGeneratorService.generateOpenApiSpec.
GenerateOpenApiSpec(toolName, method, url, queryParams, headers, bodySchema, description) ==
    LET path == PathOf(url)
        requestBody ==
            IF bodySchema # None
            THEN Some([required |-> TRUE,
                       content |-> [schema |-> Get(bodySchema)]])
            ELSE None
        operation ==
            [summary |-> IF Truthy(description) THEN Text(Get(description))
                         ELSE <<method, " ", path>>,
             description |-> IF Truthy(description) THEN Text(Get(description))
                             ELSE <<"Call ", method, " endpoint at ", url>>,
             parameters |-> GenerateParameters(queryParams, headers),
             responses |-> {200, 400, 401, 500},
             requestBody |-> requestBody]
    IN  [openapi |-> "3.1.0",
         info |-> [title |-> toolName,
                   description |-> IF Truthy(description)
                                   THEN Text(Get(description))
                                   ELSE <<"OpenAPI spec for ", toolName>>,
                   version |-> "1.0.0"],
         servers |-> << [url |-> ServerUrl(url),
                         description |-> "Default server"] >>,
         paths |-> << [path |-> path,
                       operations |-> << [method |-> ToLowerCase(method),
                                          operation |-> operation] >>] >>]

\* The generated document as validateOpenApiSpec reads it: it has an
\* openapi field and no swagger field.
AsSpecDoc(spec) == SpecDoc(Some(spec.openapi), None)

\* The parameter objects a caller passes: absent, empty, or with one or two
\* keys whose schema is given or null.
ParamObjects(a, b) ==
    {None, Some(<<>>), Some(<< <<a, None>> >>),
     Some(<< <<a, Some("integer")>>, <<b, None>> >>)}

\* generateOpenApiSpec's arguments.
GeneratorInputs ==
    [method : {"generateOpenApiSpec"},
     toolName : {"t1"},
     httpMethod : Methods,
     url : Urls,
     queryParams : ParamObjects("q1", "q2"),
     headers : ParamObjects("h1", "q1"),
     bodySchema : {None, Some("object")},
     description : {None, Some(""), Some("d1")}]

\* generateOpenApiSpec is called and returns the document.
CallGenerateOpenApiSpec(a) ==
    /\ fout = None
    /\ fin' = a
    /\ fout' = Some(GenerateOpenApiSpec(a.toolName, a.httpMethod, a.url,
                                        a.queryParams, a.headers,
                                        a.bodySchema, a.description))
    /\ UNCHANGED <<store, updateVars, apiVars, up>>

\* Calls of the pure service methods.
NextDirect ==
    \/ \E auth \in AuthInputs : CallValidateAuth(auth)
    \/ \E a \in GeneratorInputs : CallGenerateOpenApiSpec(a)

SpecDirect == Init /\ [][NextDirect]_vars

\* ------------------------------------------- concurrent uploadOpenApiSpec
\* Calls of S3Service.uploadOpenApiSpec running side by side (two HTTP
\* requests in flight): each has its own locals, the bucket and its objects
\* are shared.  S3 applies a request when it answers it.
uploadRest == <<store, updateVars, fin, fout, env, gateways, providers,
                targets, hreq, hpc, hloc, hlog, hres, requests>>

\* The upload rejects with e.
UploadThrow(p, e) ==
    up' = [up EXCEPT ![p].pc = "done", ![p].result = e]

\* uploadOpenApiSpec after ensureS3Bucket: the key is built and the
\* PutObject request is sent.
UploadSendPutObject(p) ==
    \E ts \in Timestamps, rid \in RandomIds :
        LET key == ObjectKey(up[p].gatewayId, up[p].toolName, ts, rid)
        IN  up' = [up EXCEPT
                     ![p].pc = "PutObject",
                     ![p].key = key,
                     ![p].log = Append(up[p].log,
                                  Call_("PutObject",
                                        [Bucket |-> OpenApiSpecsBucket,
                                         Key |-> key]))]

\* uploadOpenApiSpec is called: ensureS3Bucket sends HeadBucket.
UploadOpenApiSpec(p, gatewayId, toolName) ==
    /\ up[p].pc = "idle"
    /\ up' = [up EXCEPT ![p] =
                 [NoUpload EXCEPT
                    !.pc = "HeadBucket",
                    !.gatewayId = gatewayId,
                    !.toolName = toolName,
                    !.log = <<Call_("HeadBucket", OpenApiSpecsBucket)>>]]
    /\ UNCHANGED <<uploadRest, bucketExists, objects>>

\* ensureS3Bucket: HeadBucket answers.
UploadHeadBucketReturns(p, out) ==
    /\ up[p].pc = "HeadBucket"
    /\ out \in HeadBucketOutcomes
    /\ IF out = Ok
       THEN UploadSendPutObject(p)
       ELSE IF out.Code = "NoSuchBucket" \/ out.httpStatusCode = 404
       THEN up' = [up EXCEPT
                     ![p].pc = "CreateBucket",
                     ![p].log = Append(up[p].log,
                                  Call_("CreateBucket", OpenApiSpecsBucket))]
       ELSE UploadThrow(p, out)
    /\ UNCHANGED <<uploadRest, bucketExists, objects>>

\* Variant: an existing bucket makes ensureS3Bucket fail.
UploadCreateBucketReturns_ThrowsOnExisting(p, out) ==
    /\ up[p].pc = "CreateBucket"
    /\ out \in CreateBucketOutcomes
    /\ bucketExists' = (bucketExists \/ out = Ok)
    /\ IF out = Ok
       THEN UploadSendPutObject(p)
       ELSE UploadThrow(p, out)
    /\ UNCHANGED <<uploadRest, objects>>

\* ensureS3Bucket: CreateBucket answers.
UploadCreateBucketReturns(p, out) ==
    /\ up[p].pc = "CreateBucket"
    /\ out \in CreateBucketOutcomes
    /\ bucketExists' = (bucketExists \/ out = Ok)
    /\ IF out = Ok
       THEN UploadSendPutObject(p)
       ELSE IF out.Code = "BucketAlreadyOwnedByYou"
               \/ out.Code = "BucketAlreadyExists"
       THEN UploadSendPutObject(p)
       ELSE UploadThrow(p, out)
    /\ UNCHANGED <<uploadRest, objects>>

\* uploadOpenApiSpec: PutObject answers, the s3:// URI is returned.
UploadPutObjectReturns(p, out) ==
    /\ up[p].pc = "PutObject"
    /\ out \in PutObjectOutcomes
    /\ IF out = Ok
       THEN /\ objects' = objects \cup
                    {[Bucket |-> OpenApiSpecsBucket, Key |-> up[p].key]}
            /\ up' = [up EXCEPT ![p].pc = "done", ![p].result = Ok]
       ELSE /\ UploadThrow(p, out)
            /\ UNCHANGED objects
    /\ UNCHANGED <<uploadRest, bucketExists>>

\* Two tool-creation requests uploading their specs at the same time.
NextUpload ==
    \/ \E p \in Procs, t \in {"t1", "t2"} : UploadOpenApiSpec(p, "G0", t)
    \/ \E p \in Procs, out \in HeadBucketAnswers :
            UploadHeadBucketReturns(p, out)
    \/ \E p \in Procs, out \in CreateBucketAnswers :
            UploadCreateBucketReturns(p, out)
    \/ \E p \in Procs, out \in PutObjectAnswers :
            UploadPutObjectReturns(p, out)

SpecUpload == InitCreate /\ [][NextUpload]_vars

\* ------------------------------------------------------------ claims
\* The stored or supplied spec URI as a string, "" when there is none.
UriOf(tc) == IF Truthy(GetS3Uri(tc)) THEN Get(GetS3Uri(tc)) ELSE ""

NotFoundError == Err("Error", NotFoundMessage)

\* C1: when the read of the current target fails because the target does
\* not exist, the update fails with the not-found error and no
\* UpdateGatewayTarget call is sent, whatever fields the caller supplied.
C1_NotFoundReadNoWrite ==
    \A p \in Procs :
        readError[p] = Some(NotFoundError) =>
            /\ writes[p] = 0
            /\ pc[p] = "done" => result[p] = NotFoundError

\* C2: an update whose read succeeded changes the stored spec URI only when
\* it supplied a non-empty URI and the stored credentials only when it
\* supplied a credentials list (patch semantics over the full replace).
C2_PatchSemantics ==
    [][(/\ pc[1] = "writing"
        /\ pc'[1] = "done"
        /\ result'[1] = Ok
        /\ existing[1] # None)
       => /\ UriOf(Get(store').targetConfiguration) =
                IF UriOf(given[1].targetConfiguration) # ""
                THEN UriOf(given[1].targetConfiguration)
                ELSE UriOf(Get(store).targetConfiguration)
          /\ Get(store').credentialProviderConfigurations =
                IF given[1].credentialProviderConfigurations # None
                THEN given[1].credentialProviderConfigurations
                ELSE Get(store).credentialProviderConfigurations]_vars

\* C3: when the read succeeded, the supplied targetConfiguration has no
\* usable spec URI (empty, key missing, or an enclosing object missing) and
\* the current record has one, the payload's URI is the current record's;
\* if the credentials are omitted too, the payload's are the current ones.
C3_UriSplice ==
    \A p \in Procs :
        (/\ payload[p].sent
         /\ existing[p] # None
         /\ given[p].targetConfiguration # None
         /\ ~Truthy(GetS3Uri(given[p].targetConfiguration))
         /\ Truthy(GetS3Uri(Get(existing[p]).targetConfiguration)))
        => /\ GetS3Uri(payload[p].targetConfiguration) =
                GetS3Uri(Get(existing[p]).targetConfiguration)
           /\ given[p].credentialProviderConfigurations = None =>
                payload[p].credentialProviderConfigurations =
                    Get(existing[p]).credentialProviderConfigurations

\* C4: when the read fails for a reason other than not-found, the update
\* fails with that same error and no write call is sent.
C4_ReadFailurePropagates ==
    \A p \in Procs :
        (readError[p] # None /\ Get(readError[p]) # NotFoundError) =>
            /\ writes[p] = 0
            /\ pc[p] = "done" => result[p] = Get(readError[p])

\* C5: an update that omits targetConfiguration, on a target with a
\* non-empty spec URI whose read succeeded, sends the current record's
\* targetConfiguration in full, so the payload's URI is the prior one.
C5_OmittedConfigurationKept ==
    \A p \in Procs :
        (/\ payload[p].sent
         /\ existing[p] # None
         /\ given[p].targetConfiguration = None
         /\ Truthy(GetS3Uri(Get(existing[p]).targetConfiguration)))
        => /\ payload[p].targetConfiguration =
                Get(existing[p]).targetConfiguration
           /\ UriOf(payload[p].targetConfiguration) =
                UriOf(Get(existing[p]).targetConfiguration)

C5_Witness ==
    /\ payload[1].sent
    /\ existing[1] # None
    /\ given[1].targetConfiguration = None
    /\ UriOf(payload[1].targetConfiguration) = OldUri
    /\ Get(payload[1].targetConfiguration).extra = "e0"

\* C6: an update that explicitly supplies an empty credentials list sends
\* an empty list, whatever credentials the current record holds.
C6_ExplicitEmptyCredentials ==
    \A p \in Procs :
        (payload[p].sent /\ given[p].credentialProviderConfigurations = Some(<<>>))
        => payload[p].credentialProviderConfigurations = Some(<<>>)

C6_Witness ==
    /\ payload[1].sent
    /\ given[1].credentialProviderConfigurations = Some(<<>>)
    /\ existing[1] # None
    /\ Get(existing[1]).credentialProviderConfigurations = Some(<<"c0">>)
    /\ payload[1].credentialProviderConfigurations = Some(<<>>)

\* C7: an update that omits the credentials sends the credentials stored
\* on the target before the update.
C7_OmittedCredentialsKept ==
    (/\ pc[1] = "writing"
     /\ given[1].credentialProviderConfigurations = None
     /\ store # None)
    => payload[1].credentialProviderConfigurations =
            Get(store).credentialProviderConfigurations

\* C8: an update that omits description, with a successful read, sends the
\* current record's description.
C8_OmittedDescriptionKept ==
    \A p \in Procs :
        (/\ payload[p].sent
         /\ existing[p] # None
         /\ given[p].description = None)
        => payload[p].description = Get(existing[p]).description

\* C9: an execution issues at most one read and at most one write, the
\* write is not sent while the read is outstanding, and a write is always
\* preceded by exactly one read.
C9_OneReadThenOneWrite ==
    \A p \in Procs :
        /\ reads[p] <= 1
        /\ writes[p] <= 1
        /\ pc[p] = "reading" => writes[p] = 0
        /\ writes[p] = 1 => (reads[p] = 1 /\ pc[p] \in {"writing", "done"})

C9_Witness ==
    /\ pc[1] = "done"
    /\ result[1] = Ok
    /\ reads[1] = 1
    /\ writes[1] = 1
    /\ pc[2] = "reading"
    /\ reads[2] = 1
    /\ writes[2] = 0

\* C10: the read-then-write is not atomic.  An updater whose read has been
\* overtaken by another updater's write still succeeds, and its write puts
\* back the credentials of the stale record it read when it omitted them.
C10_StaleOverwrite ==
    [][\A q \in Procs :
        (/\ pc[q] = "writing"
         /\ pc'[q] = "done"
         /\ result'[q] = Ok
         /\ stale[q]
         /\ existing[q] # None
         /\ given[q].credentialProviderConfigurations = None)
        => Get(store').credentialProviderConfigurations =
                Get(existing[q]).credentialProviderConfigurations]_vars

\* Both updates report success, updater 1 wrote new credentials, and the
\* stored record holds the pre-update credentials again.
C10_Witness ==
    /\ pc[1] = "done" /\ result[1] = Ok
    /\ pc[2] = "done" /\ result[2] = Ok
    /\ stale[2]
    /\ existing[1] = existing[2]
    /\ given[1].credentialProviderConfigurations = Some(<<"cB">>)
    /\ payload[1].credentialProviderConfigurations = Some(<<"cB">>)
    /\ given[2].credentialProviderConfigurations = None
    /\ store # None
    /\ Get(store).credentialProviderConfigurations = Some(<<"c0">>)

\* The endpoints that address one existing gateway or tool with an atomic
\* handler (PUT tool runs as updater 1).
ResourceEndpoints ==
    {"GET /gateways/:gateway_id", "PUT /gateways/:gateway_id",
     "DELETE /gateways/:gateway_id",
     "GET /gateways/:gateway_id/tools/:target_id",
     "DELETE /gateways/:gateway_id/tools/:target_id"}

\* The messages of the errors that say the addressed resource is missing.
MissingMessages ==
    {NotFoundMessage, GatewayNotFoundMessage, ResourceNotFound.message}

\* C11: a GET, PUT or DELETE of a gateway or tool that does not exist is
\* answered with status 404, also a PUT tool that omits
\* target_configuration.
C11_MissingResourceIs404 ==
    /\ (/\ hpc = "done"
        /\ hreq.endpoint \in ResourceEndpoints
        /\ hres.error \in MissingMessages)
       => hres.status = 404
    /\ (/\ pc[1] = "done"
        /\ readError[1] = Some(NotFoundError)
        /\ result[1] \notin TransientErrors)
       => UpdateToolResponse(result[1]).status = 404

\* The handler's own input check rejects the request in hreq.
OwnCheckRejects ==
    \/ /\ hreq.endpoint \in {"GET /gateways", "GET /gateways/:gateway_id/tools"}
       /\ MaxResultsInvalid(hreq.max_results)
    \/ /\ hreq.endpoint = "POST /gateways"
       /\ \/ hreq.body.auth_config.user_pool_id = ""
          \/ hreq.body.auth_config.client_id = ""
          \/ hreq.body.auth_config.discovery_url = ""
    \/ /\ hreq.endpoint = "PUT /gateways/:gateway_id"
       /\ \/ hreq.body.authorizer_type \notin {"CUSTOM_JWT", "AWS_IAM", "NONE"}
          \/ hreq.body.protocol_type # "MCP"

\* C13: a request rejected by the handler's own input check is answered
\* with status 400 and no call to the gateway control service is sent.
C13_OwnCheckIs400 ==
    (hpc = "done" /\ OwnCheckRejects) => (hres.status = 400 /\ hlog = <<>>)

\* C14: every error response, whatever its status, has a body with exactly
\* the fields status and error.
C14_ErrorBodyShape ==
    /\ (hpc = "done" /\ hres.status >= 400)
       => hres.keys = {"status", "error"}
    /\ (pc[1] = "done" /\ result[1] # Ok)
       => UpdateToolResponse(result[1]).keys = {"status", "error"}

\* C12: a tool-creation request whose api_key auth lacks config.api_key or
\* provider_name is answered with status 400, and no S3, credential-provider
\* or target call is made.
C12_AuthRejectedIs400 ==
    (hpc = "done" /\ ValidateAuth(hreq.auth) # None)
        => (hres.status = 400 /\ hlog = <<>>)

\* The tool name of the request in hand is already a target of the gateway.
TargetTaken ==
    \E t \in targets :
        t.gatewayIdentifier = hreq.gateway_id /\ t.name = hreq.tool_name

\* The provider name of the request in hand is already registered.
ProviderTaken ==
    ProviderParams(hreq.tool_name, hreq.auth).apiKeyProviderName \in providers

\* C15: when the target name already exists on the gateway, the answer to
\* CreateGatewayTarget ends the request with status 500 on each of the three
\* tool-creation endpoints.
C15_ConflictIs500 ==
    [][(hpc = "CreateTarget" /\ TargetTaken /\ hpc' = "done")
        => hres'.status = 500]_vars

\* POST /tools/from-url was answered with 500 after the service rejected
\* CreateGatewayTarget for a name a first request had taken.
C15_Witness ==
    /\ hpc = "done"
    /\ hreq.endpoint = "POST /tools/from-url"
    /\ TargetTaken
    /\ Len(hlog) = 5
    /\ hlog[Len(hlog)].op = "CreateGatewayTarget"
    /\ hlog[Len(hlog)].params \notin targets
    /\ hres.status = 500
    /\ hres.error \in {TargetExistsMessage, "Target name already in use"}

\* C16: when a provider with the given name already exists,
\* createOrGetApiKeyCredentialProvider still returns its ARN and tool
\* creation goes on to CreateGatewayTarget.
C16_ExistingProviderReturned ==
    [][(/\ hpc = "CreateProvider"
        /\ ProviderTaken
        /\ hpc' # "CreateProvider"
        /\ hres'.error \notin {e.message : e \in AwsTransientErrors})
        => (/\ hpc' = "CreateTarget"
            /\ hloc'.credentialProviderArn =
                 ProviderArn(ProviderParams(hreq.tool_name,
                                            hreq.auth).apiKeyProviderName))]_vars

\* The operations of the calls in a log, in the order they were sent.
OpsOf(log) == [i \in 1..Len(log) |-> log[i].op]

IsPrefix(a, b) ==
    Len(a) <= Len(b) /\ \A i \in 1..Len(a) : a[i] = b[i]

\* C17: in uploadOpenApiSpec CreateBucket is sent only after HeadBucket
\* reported the bucket absent, PutObject only once the bucket exists, and any
\* other HeadBucket failure ends the upload with neither call sent; the
\* object is written under gateways/{gatewayId}/tools/{toolName}/
\* {timestamp}-{randomSuffix}.json and the returned URI is s3://{bucket}/{key}
\* of the bucket and key written.
C17_UploadOrderAndKey ==
    [][/\ (hpc' = "CreateBucket" /\ hpc # "CreateBucket")
          => (/\ hpc = "HeadBucket"
              /\ ~bucketExists
              /\ OpsOf(hlog')[Len(hlog') - 1] = "HeadBucket")
       /\ (hpc' = "PutObject" /\ hpc # "PutObject")
          => (/\ hpc \in {"HeadBucket", "CreateBucket"}
              /\ bucketExists'
              /\ hlog'[Len(hlog')].params.Bucket = OpenApiSpecsBucket)
       /\ (hpc = "HeadBucket" /\ hpc' = "done")
          => (/\ hres'.status = 500
              /\ \A i \in 1..Len(hlog') :
                    hlog'[i].op \notin {"CreateBucket", "PutObject"})
       /\ (hpc = "PutObject" /\ hpc' = "CreateProvider")
          => (/\ \E ts \in Timestamps, rid \in RandomIds :
                    hloc'.key = "gateways/" \o hreq.gateway_id \o "/tools/"
                                  \o hreq.tool_name \o "/" \o ToString(ts)
                                  \o "-" \o rid \o ".json"
              /\ hloc'.s3Uri = "s3://" \o hloc'.bucket \o "/" \o hloc'.key
              /\ [Bucket |-> hloc'.bucket, Key |-> hloc'.key] \in objects'
              /\ \E i \in 1..Len(hlog) :
                    /\ hlog[i].op = "PutObject"
                    /\ hlog[i].params =
                         [Bucket |-> hloc'.bucket, Key |-> hloc'.key])]_vars

\* An upload that had to create the bucket has returned its URI.
C17_Witness ==
    /\ hpc = "CreateProvider"
    /\ IsPrefix(<<"HeadBucket", "CreateBucket", "PutObject">>, OpsOf(hlog))
    /\ bucketExists
    /\ hloc.s3Uri = "s3://agentcore-gateway-openapi-specs-bucket/gateways/G0/tools/t1/1700000000-0a1b2c3d4e5f6071.json"
    /\ [Bucket |-> OpenApiSpecsBucket, Key |-> hloc.key] \in objects

\* The orders in which POST /tools/from-url can send its calls.
FromUrlOrders ==
    {<<"HttpGet", "HeadBucket", "PutObject",
       "CreateApiKeyCredentialProvider", "CreateGatewayTarget">>,
     <<"HttpGet", "HeadBucket", "CreateBucket", "PutObject",
       "CreateApiKeyCredentialProvider", "CreateGatewayTarget">>}

\* The calls of a from-url request were sent in order, each after the
\* earlier steps had succeeded.
FromUrlStepsInOrder ==
    (hreq.endpoint = "POST /tools/from-url") =>
        /\ \E o \in FromUrlOrders : IsPrefix(OpsOf(hlog), o)
        /\ hlog # <<>> => ValidateAuth(hreq.auth) = None
        /\ Len(hlog) > 1
           => (Truthy(hreq.spec.openapi) \/ Truthy(hreq.spec.swagger))
        /\ \A i \in 1..Len(hlog) :
              /\ hlog[i].op = "CreateApiKeyCredentialProvider"
                 => (/\ [Bucket |-> hloc.bucket, Key |-> hloc.key] \in objects
                     /\ hloc.s3Uri # "")
              /\ hlog[i].op = "CreateGatewayTarget"
                 => (/\ hloc.response # None
                     /\ ProviderParams(hreq.tool_name, hreq.auth)
                            .apiKeyProviderName \in providers
                     /\ hlog[i].params.targetConfiguration
                            = Cfg(4, hloc.s3Uri, ""))
        /\ (hpc = "done" /\ hres.status = 201)
           => (/\ Len(hlog) >= 5
               /\ hlog[Len(hlog)].op = "CreateGatewayTarget"
               /\ hlog[Len(hlog)].params \in targets)

C19_SharedGatewayRole ==
    /\ \A i \in 1..Len(hlog) :
          hlog[i].op = "CreateGateway"
             => (Truthy(env) /\ hlog[i].params.roleArn = Get(env))
    /\ ~Truthy(env) => gateways = <<>>

\* Two gateways were created, one by each creation endpoint, with the same
\* configured role.
C19_Witness ==
    /\ Len(gateways) = 2
    /\ gateways[1].authorizerType # gateways[2].authorizerType
    /\ gateways[1].roleArn = GatewayRoleArn
    /\ gateways[2].roleArn = GatewayRoleArn
    /\ hlog # <<>>
    /\ hlog[1].op = "CreateGateway"
    /\ hres.status = 201

\* The number of calls of operation op in a log.
Count(log, op) == Cardinality({i \in 1..Len(log) : log[i].op = op})

\* C20: within one HTTP request each service operation is invoked at most
\* once, whether it succeeds or fails.
C20_NoRetry ==
    /\ \A i \in 1..Len(hlog) : Count(hlog, hlog[i].op) = 1
    /\ reads[1] <= 1
    /\ writes[1] <= 1

\* A tool creation failed at its last call after five calls, one of each
\* operation.
C20_Witness ==
    /\ hpc = "done"
    /\ hres.status = 500
    /\ hres.error \in {e.message : e \in AwsTransientErrors}
    /\ OpsOf(hlog) = <<"HeadBucket", "CreateBucket", "PutObject",
                        "CreateApiKeyCredentialProvider",
                        "CreateGatewayTarget">>
    /\ pc[1] = "done"
    /\ result[1] \in TransientErrors
    /\ reads[1] = 1

\* C21: validateAuth throws BadRequest exactly when auth is present, its
\* type is api_key and config.api_key or provider_name is missing or empty;
\* a request missing both is reported as missing api_key.
C21_ValidateAuthCases ==
    fin.method = "validateAuth" =>
        LET a == fin.auth
            noKey == Get(a).config.api_key \in {None, Some("")}
            noProvider == Get(a).provider_name \in {None, Some("")}
        IN  IF a # None /\ Get(a).type = "api_key" /\ (noKey \/ noProvider)
            THEN /\ Get(fout).name = "BadRequestException"
                 /\ noKey => Get(fout).message = ApiKeyRequiredMessage
                 /\ ~noKey => Get(fout).message = ProviderNameRequiredMessage
            ELSE fout = Some(Ok)

\* validateAuth was called with api_key auth lacking both fields and
\* reported the missing api_key.
C21_Witness ==
    /\ fin.method = "validateAuth"
    /\ fin.auth # None
    /\ Get(fin.auth).type = "api_key"
    /\ Get(fin.auth).config.api_key = None
    /\ Get(fin.auth).provider_name = None
    /\ fout = Some(BadRequest(ApiKeyRequiredMessage))

\* The names of the entries of a parameter object, in order.
KeysOf(obj) ==
    IF obj = None THEN <<>> ELSE [i \in 1..Len(Get(obj)) |-> Get(obj)[i][1]]

\* C24: the spec returned by generateOpenApiSpec passes validateOpenApiSpec
\* with openapi '3.1.0', has one path with one operation keyed by the
\* lower-cased method, lists a required 'query' parameter per queryParams
\* key followed by a required 'header' parameter per headers key, and has a
\* requestBody exactly when a bodySchema was supplied.
C24_GeneratedSpecShape ==
    fin.method = "generateOpenApiSpec" =>
        LET spec == Get(fout)
            op == spec.paths[1].operations[1]
            ps == op.operation.parameters
            qs == KeysOf(fin.queryParams)
            hs == KeysOf(fin.headers)
        IN  /\ spec.openapi = "3.1.0"
            /\ ValidateOpenApiSpec(AsSpecDoc(spec)) = None
            /\ Len(spec.paths) = 1
            /\ Len(spec.paths[1].operations) = 1
            /\ op.method \in {"get", "post", "delete"}
            /\ (fin.httpMethod = "GET") = (op.method = "get")
            /\ (fin.httpMethod = "Post") = (op.method = "post")
            /\ Len(ps) = Len(qs) + Len(hs)
            /\ \A i \in 1..Len(qs) :
                  ps[i].name = qs[i] /\ ps[i].in = "query" /\ ps[i].required
            /\ \A i \in 1..Len(hs) :
                  /\ ps[Len(qs) + i].name = hs[i]
                  /\ ps[Len(qs) + i].in = "header"
                  /\ ps[Len(qs) + i].required
            /\ (op.operation.requestBody # None) = (fin.bodySchema # None)

\* A spec was generated from two query parameters, two headers and a body
\* schema for a method given in mixed case.
C24_Witness ==
    /\ fin.method = "generateOpenApiSpec"
    /\ fin.httpMethod = "Post"
    /\ Len(KeysOf(fin.queryParams)) = 2
    /\ Len(KeysOf(fin.headers)) = 2
    /\ fin.bodySchema # None
    /\ Len(Get(fout).paths[1].operations[1].operation.parameters) = 4
    /\ Get(fout).paths[1].operations[1].operation.requestBody # None

\* C25: for every url new URL() can parse, the server url of the generated
\* spec is the url's scheme and host, and followed by the spec's path it
\* gives back the url's scheme, host and path.
C25_ServerUrlIsBase ==
    (fin.method = "generateOpenApiSpec" /\ ParseUrl(fin.url) # None) =>
        LET spec == Get(fout)
            u == Get(ParseUrl(fin.url))
        IN  /\ spec.servers[1].url = u.origin
            /\ spec.servers[1].url \o spec.paths[1].path
                  = u.origin \o u.pathname

\* C22: when the caller supplies a targetConfiguration with a non-empty
\* spec URI, the write payload carries the caller's URI whatever the current
\* record holds, and the payload's name is the caller's targetName.
C22_SuppliedUriWins ==
    \A p \in Procs :
        payload[p].sent =>
            /\ payload[p].name = given[p].targetName
            /\ (/\ given[p].targetConfiguration # None
                /\ Get(given[p].targetConfiguration).depth = 4
                /\ Get(given[p].targetConfiguration).uri # "")
               => (/\ payload[p].targetConfiguration # None
                   /\ Get(payload[p].targetConfiguration).depth = 4
                   /\ Get(payload[p].targetConfiguration).uri
                        = Get(given[p].targetConfiguration).uri)

\* An update supplying a new URI was sent for a record read without a URI.
C22_Witness ==
    /\ payload[1].sent
    /\ existing[1] # None
    /\ UriOf(Get(existing[1]).targetConfiguration) = ""
    /\ given[1].targetConfiguration = Some(Cfg(4, NewUri, "e1"))
    /\ payload[1].targetConfiguration = Some(Cfg(4, NewUri, "e1"))
    /\ payload[1].name = "n1"

\* C23: a target created through a tool-creation endpoint has the spec URI
\* this request's upload returned and exactly one API_KEY credential
\* configuration with the provider ARN this request's provider creation
\* returned; for api_key auth its parameter name and location are the
\* caller's, 'api_key' and 'QUERY_PARAMETER' when omitted (an empty string
\* counts as omitted).
C23_TargetCarriesRequestResults ==
    (hpc = "done" /\ hres.status = 201) =>
        LET t == hlog[Len(hlog)].params
            cs == t.credentialProviderConfigurations
            put == CHOOSE i \in 1..Len(hlog) : hlog[i].op = "PutObject"
            created == CHOOSE i \in 1..Len(hlog) :
                          hlog[i].op = "CreateApiKeyCredentialProvider"
        IN  /\ t \in targets
            /\ t.gatewayIdentifier = hreq.gateway_id
            /\ t.name = hreq.tool_name
            /\ t.targetConfiguration =
                 Cfg(4, "s3://" \o hlog[put].params.Bucket \o "/"
                                \o hlog[put].params.Key, "")
            /\ hlog[put].params \in objects
            /\ Len(cs) = 1
            /\ cs[1].credentialProviderType = "API_KEY"
            /\ hloc.response # None
            /\ cs[1].providerArn = ProviderArn(hlog[created].params)
            /\ Some(cs[1].providerArn) = Get(hloc.response).credentialProviderArn
            /\ hlog[created].params \in providers
            /\ (hreq.auth # None /\ Get(hreq.auth).type = "api_key") =>
                 LET cfg == Get(hreq.auth).config
                 IN  /\ hlog[created].params = Get(Get(hreq.auth).provider_name)
                     /\ cs[1].credentialParameterName =
                          IF Truthy(cfg.api_key_param_name)
                          THEN Get(cfg.api_key_param_name) ELSE "api_key"
                     /\ cs[1].credentialLocation =
                          IF Truthy(cfg.api_key_location)
                          THEN Get(cfg.api_key_location)
                          ELSE "QUERY_PARAMETER"

\* C26: the same update request sent twice in a row, both reads succeeding
\* and nobody else writing, sends the same write payload the second time,
\* and the second update leaves the stored configuration and credentials as
\* the first left them.
C26_RepeatedUpdateIdempotent ==
    [][/\ (pc[2] = "reading" /\ pc'[2] = "writing"
            /\ existing'[1] # None /\ existing'[2] # None)
             => payload'[2] = payload'[1]
       /\ (pc[2] = "writing" /\ result'[2] = Ok /\ result[1] = Ok
            /\ existing[1] # None /\ existing[2] # None)
             => /\ store = Some(ReplaceTarget(payload[1]))
                /\ store' # None
                /\ Get(store').targetConfiguration =
                     Get(store).targetConfiguration
                /\ Get(store').credentialProviderConfigurations =
                     Get(store).credentialProviderConfigurations]_vars

\* Both updates were applied; the request gave credentials and a
\* configuration with an empty URI, and the target had credentials and a URI
\* before.
C26_Witness ==
    /\ pc[1] = "done" /\ pc[2] = "done"
    /\ result[1] = Ok /\ result[2] = Ok
    /\ existing[1] # None /\ existing[2] # None
    /\ given[2] = given[1]
    /\ given[1].targetConfiguration = Some(Cfg(4, "", "e1"))
    /\ given[1].credentialProviderConfigurations = Some(<<"cB">>)
    /\ Get(existing[1]).credentialProviderConfigurations = Some(<<"c0">>)
    /\ payload[2] = payload[1]
    /\ payload[2].targetConfiguration = Some(Cfg(4, OldUri, "e1"))
    /\ store = Some(ReplaceTarget(payload[2]))

\* C27: an update that omits targetConfiguration and whose read failed, for
\* whatever reason, fails with 'target_configuration is required when
\* updating tool if existing target cannot be retrieved' and sends no write;
\* a payload sent after a failed read holds the caller's values only.
C27_ConfigurationRequiredOnFailedRead ==
    \A p \in Procs :
        /\ (readError[p] # None /\ given[p].targetConfiguration = None) =>
              /\ pc[p] = "done"
              /\ result[p] =
                   Err("Error",
                       "target_configuration is required when updating tool if existing target cannot be retrieved")
              /\ writes[p] = 0
              /\ ~payload[p].sent
        /\ (payload[p].sent /\ existing[p] = None) =>
              /\ given[p].targetConfiguration # None
              /\ payload[p].targetConfiguration = given[p].targetConfiguration
              /\ payload[p].credentialProviderConfigurations =
                   given[p].credentialProviderConfigurations

\* An update without targetConfiguration whose read was throttled, on a
\* target that exists, has failed.
C27_Witness ==
    /\ store # None
    /\ given[1].targetConfiguration = None
    /\ readError[1] = Some(Err("ThrottlingException", "Rate exceeded"))
    /\ pc[1] = "done"
    /\ result[1].kind = "error"
    /\ writes[1] = 0

\* C28: an update whose target was deleted by another actor between its read
\* and its write fails, with "Target '<id>' not found on gateway '<id>'"
\* (404 from the PUT endpoint) when the service reports the missing target,
\* and the target is still absent afterwards.
C28_DeletedBeforeWrite ==
    [][\A p \in Procs :
         (/\ pc[p] = "writing"
          /\ pc'[p] = "done"
          /\ existing[p] # None
          /\ store = None)
         => /\ store' = None
            /\ result'[p].kind = "error"
            /\ result'[p] \notin TransientErrors =>
                 /\ result'[p] =
                      Err("Error", "Target '<id>' not found on gateway '<id>'")
                 /\ UpdateToolResponse(result'[p]).status = 404]_vars

\* An update read the target, the target was deleted, and the update then
\* failed with the not-found error.
C28_Witness ==
    /\ pc[1] = "done"
    /\ existing[1] # None
    /\ payload[1].sent
    /\ store = None
    /\ result[1] = Err("Error", NotFoundMessage)
    /\ UpdateToolResponse(result[1]).status = 404

\* Failures S3 answers with whatever the state of the bucket.
S3Faults ==
    {AwsErr("Forbidden", "", 403, "Forbidden"),
     AwsErr("AccessDenied", "AccessDenied", 403, "Access Denied"),
     AwsErr("SlowDown", "SlowDown", 503, "Please reduce your request rate.")}

\* C29: with concurrent uploads starting while the bucket does not exist, an
\* upload that finds the bucket created by the other one when its own
\* CreateBucket is answered (BucketAlreadyOwnedByYou / BucketAlreadyExists)
\* goes on to its PutObject; every upload that ends has succeeded with its
\* object written, unless S3 failed it for a reason other than the race.
C29_ConcurrentUploadsBothSucceed ==
    [][\A p \in Procs :
         /\ (up[p].pc = "CreateBucket" /\ up'[p].pc # "CreateBucket"
              /\ bucketExists)
              => \/ /\ up'[p].pc = "PutObject"
                    /\ up'[p].log[Len(up'[p].log)].op = "PutObject"
                 \/ up'[p].result \in S3Faults
         /\ up'[p].pc = "done"
              => \/ /\ up'[p].result = Ok
                    /\ [Bucket |-> OpenApiSpecsBucket, Key |-> up'[p].key]
                          \in objects'
                    /\ bucketExists'
                 \/ up'[p].result \in S3Faults]_vars

\* Both uploads found no bucket and sent CreateBucket; both have ended
\* successfully with their objects in the bucket.
C29_Witness ==
    /\ \A p \in Procs :
          /\ up[p].pc = "done"
          /\ up[p].result = Ok
          /\ Len(up[p].log) = 3
          /\ up[p].log[2].op = "CreateBucket"
          /\ [Bucket |-> OpenApiSpecsBucket, Key |-> up[p].key] \in objects
    /\ up[1].key # up[2].key
    /\ Cardinality(objects) = 2

\* C30: a tool creation without api_key auth creates the provider
\* '<tool_name>-placeholder-apikey' and registers its target with it; once
\* that provider exists, a creation without api_key auth of the same tool
\* name, on whatever gateway, ends at the provider step with HTTP 500 and no
\* new target, its spec object being in the bucket already.
C30_PlaceholderProviderCollision ==
    [][/\ (/\ hpc = "CreateProvider"
           /\ hpc' # "CreateProvider"
           /\ (hreq.auth = None \/ Get(hreq.auth).type # "api_key"))
          => /\ hlog[Len(hlog)] =
                  Call_("CreateApiKeyCredentialProvider",
                        hreq.tool_name \o "-placeholder-apikey")
             /\ [Bucket |-> hloc.bucket, Key |-> hloc.key] \in objects
             /\ IF (hreq.tool_name \o "-placeholder-apikey") \in providers
                THEN /\ hpc' = "done"
                     /\ hres'.status = 500
                     /\ targets' = targets
                     /\ hlog' = hlog
                ELSE hpc' = "CreateTarget" =>
                     /\ (hreq.tool_name \o "-placeholder-apikey") \in providers'
                     /\ hlog'[Len(hlog')].params
                           .credentialProviderConfigurations[1].providerArn
                          = ProviderArn(hreq.tool_name \o "-placeholder-apikey")
       /\ \A t \in targets' :
             t.credentialProviderConfigurations[1].providerArn
                = ProviderArn(t.name \o "-placeholder-apikey")
             => (t.name \o "-placeholder-apikey") \in providers']_vars
====
